---- MODULE Spec2Model ----
(***************************************************************************)
(* GPA-Calculator: the REST backend's course/semester store and its GPA,   *)
(* CGPA and statistics aggregation (server/routes/courses.js,              *)
(* server/routes/semesters.js, server/routes/reports.js,                   *)
(* server/models/Course.js, server/models/Semester.js).                    *)
(*                                                                         *)
(* Numbers.  Credits and grade points are small integers and are kept as   *)
(* such.  A GPA is a JavaScript double with at most two decimals; it is    *)
(* kept in hundredths (3.10 is 310).  Where the code divides or multiplies *)
(* doubles and then rounds,                                                *)
(* the operators below reproduce the IEEE-754 binary64 result with integer *)
(* arithmetic.                                                             *)
(***************************************************************************)
EXTENDS Integers, Sequences, FiniteSets, TLC

\* ------------------------------------------------------------------------
\* Bounds of the model
\* ------------------------------------------------------------------------
\* Longest course list enumerated over every (grade, credits) combination.
MaxCourses == 3
\* Longest transcript of the shape "f failed courses, then passed courses".
MaxTranscript == 40
\* Most semesters handed to calculateCGPA, and most courses over all of them.
MaxSemesters == 2
MaxPool == 2
\* Most semester and course documents ever created in the store.
MaxSemesterDocs == 2
MaxCourseDocs == 2

\* ------------------------------------------------------------------------
\* JavaScript values
\* ------------------------------------------------------------------------
\* Every finite number of this program is >= 0; the two non-finite doubles
\* are encoded below zero, and every operator on numbers tests for them.
NaN == 0 - 1
Infinity == 0 - 2
\* A missing document (findById returning null) and a missing body field.
null == [null |-> TRUE]


\* a + b and a * b on numbers, NaN absorbing.
JsAdd(a, b) ==
    IF a = NaN \/ b = NaN THEN NaN
    ELSE IF a = Infinity \/ b = Infinity THEN Infinity ELSE a + b
JsMul(a, b) ==
    IF a = NaN \/ b = NaN THEN NaN
    ELSE IF a = Infinity \/ b = Infinity
         THEN (IF a = 0 \/ b = 0 THEN NaN ELSE Infinity) ELSE a * b
\* a >= b and a > b for a finite b >= 0: false on NaN, true on Infinity.
JsGe(a, b) == a = Infinity \/ (a # NaN /\ a >= b)
JsGt(a, b) == a = Infinity \/ (a # NaN /\ a > b)

RECURSIVE PowMod2(_, _)
\* 2^s mod n
PowMod2(s, n) == IF s = 0 THEN 1 % n ELSE (2 * PowMod2(s - 1, n)) % n

RECURSIVE Pow2(_)
Pow2(e) == IF e = 0 THEN 1 ELSE 2 * Pow2(e - 1)

RECURSIVE FloorLog2From(_, _, _)
\* the largest e >= from with 2^e * n <= p   (p >= 2^from * n)
FloorLog2From(p, n, from) ==
    IF p < 2 * Pow2(from) * n THEN from ELSE FloorLog2From(p, n, from + 1)

RECURSIVE CeilNegLog2From(_, _, _)
\* the smallest j >= from with p * 2^j >= n   (p > 0)
CeilNegLog2From(p, n, from) ==
    IF p * Pow2(from) >= n THEN from ELSE CeilNegLog2From(p, n, from + 1)

\* The binary exponent of the quotient p / n (p, n > 0): floor(log2(p / n)).
BinExp(p, n) ==
    IF p >= n THEN FloorLog2From(p, n, 0) ELSE 0 - CeilNegLog2From(p, n, 1)

\* The double nearest to p / n is p / n + DivErr(p, n) / (n * 2^(52 - BinExp)):
\* the remainder of the 53-bit significand, rounded to nearest.
DivErr(p, n) ==
    LET s == 52 - BinExp(p, n)
        r == (p * PowMod2(s, n)) % n
    IN  IF 2 * r <= n THEN 0 - r ELSE n - r

\* parseFloat((p / c).toFixed(2)), in hundredths.  toFixed rounds the exact
\* value of the double p / c to the nearest hundredth and takes the larger
\* one when both are equally near; a decimal tie of the exact quotient is
\* therefore decided by the side on which the double lies.
toFixed2(p, c) ==
    IF p = NaN \/ c = NaN THEN NaN
    ELSE IF p = Infinity THEN (IF c = Infinity THEN NaN ELSE Infinity)
    ELSE IF c = Infinity THEN 0
    ELSE IF c = 0 THEN (IF p = 0 THEN NaN ELSE Infinity)
    ELSE LET k == (100 * p) \div c
             rem == (100 * p) % c
         IN  IF 2 * rem < c THEN k
             ELSE IF 2 * rem > c THEN k + 1
             ELSE IF DivErr(p, c) >= 0 THEN k + 1 ELSE k

\* Math.round((p / n) * 100) for 0 <= p <= n, n > 0.  Math.round takes
\* floor(x + 0.5) of the double x it is given.  When 100p/n is exactly k + 0.5
\* the product of the double p / n with 100 falls below k + 0.5 iff the
\* division error, scaled by 100, exceeds half a unit in the last place of
\* k + 0.5.
MathRoundTimes100(p, n) ==
    IF p = 0 THEN 0
    ELSE LET k == (100 * p) \div n
             rem == (100 * p) % n
             E == IF k = 0 THEN 0 - 2 ELSE FloorLog2From(k, 1, 0)
             sh == E - BinExp(p, n) - 1
         IN  IF 2 * rem < n THEN k
             ELSE IF 2 * rem > n THEN k + 1
             ELSE IF (0 - 100) * DivErr(p, n) > n * Pow2(sh) THEN k ELSE k + 1

\* ------------------------------------------------------------------------
\* server/models/Course.js
\* ------------------------------------------------------------------------
Grades == {"A", "B", "C", "D", "F"}
MinCredits == 1
MaxCredits == 4
Credits == MinCredits..MaxCredits

\* The aggregation reads only these two fields of a course document.
CourseKinds == [credits : Credits, grade : Grades]

gradePointMap == [g \in Grades |->
    CASE g = "A" -> 4 [] g = "B" -> 3 [] g = "C" -> 2 [] g = "D" -> 1 [] g = "F" -> 0]

\* map[key] * n in JavaScript: a key the object lacks reads undefined, and
\* undefined * n is NaN.
LookupTimes(map, key, n) ==
    IF key \in DOMAIN map THEN JsMul(map[key], n) ELSE NaN

\* Mutant: the credits are not multiplied in.
calculateGradePoints_Unweighted(course) == LookupTimes(gradePointMap, course.grade, 1)

calculateGradePoints(course) == LookupTimes(gradePointMap, course.grade, course.credits)

\* ------------------------------------------------------------------------
\* server/routes/semesters.js, server/routes/reports.js: helpers
\* ------------------------------------------------------------------------
\* The reducers below take the list and the number n of its elements already
\* visited, and give the accumulator after them (left to right, as reduce and
\* forEach visit them).

\* Mutant: the reducer drops its accumulator, (sum, course) => course.credits.
reduceCredits_DropsSum(courses, n, sum) ==
    IF n = 0 THEN sum ELSE courses[n].credits

RECURSIVE reduceCredits(_, _, _)
\* courses.reduce((sum, course) => sum + course.credits, sum)
reduceCredits(courses, n, sum) ==
    IF n = 0 THEN sum
    ELSE JsAdd(reduceCredits(courses, n - 1, sum), courses[n].credits)

RECURSIVE reduceGradePoints(_, _, _)
\* courses.reduce((sum, course) => sum + course.calculateGradePoints(), sum)
reduceGradePoints(courses, n, sum) ==
    IF n = 0 THEN sum
    ELSE JsAdd(reduceGradePoints(courses, n - 1, sum), calculateGradePoints(courses[n]))

\* Mutant: the result for a semester without courses depends on the gpa the
\* semester has stored.
calculateSemesterGPA_FromStored(semester) ==
    IF semester = null THEN 0
    ELSE IF Len(semester.courses) = 0 THEN 400 - semester.gpa
    ELSE toFixed2(reduceGradePoints(semester.courses, Len(semester.courses), 0),
                  reduceCredits(semester.courses, Len(semester.courses), 0))

\* calculateSemesterGPA, given what findById(semesterId).populate('courses')
\* returned: null, or the semester with its courses populated.
calculateSemesterGPA(semester) ==
    IF semester = null \/ Len(semester.courses) = 0 THEN 0
    ELSE toFixed2(reduceGradePoints(semester.courses, Len(semester.courses), 0),
                  reduceCredits(semester.courses, Len(semester.courses), 0))

RECURSIVE forEachSemesterCredits(_, _)
\* totalCredits after the courses of the first n semesters
\* (semesters.forEach(semester => semester.courses.forEach(...))).
forEachSemesterCredits(semesters, n) ==
    IF n = 0 THEN 0
    ELSE reduceCredits(semesters[n].courses, Len(semesters[n].courses),
                       forEachSemesterCredits(semesters, n - 1))

RECURSIVE forEachSemesterGradePoints(_, _)
\* totalGradePoints after the courses of the first n semesters.
forEachSemesterGradePoints(semesters, n) ==
    IF n = 0 THEN 0
    ELSE reduceGradePoints(semesters[n].courses, Len(semesters[n].courses),
                           forEachSemesterGradePoints(semesters, n - 1))

\* Mutant: the totalCredits === 0 guard is missing.
calculateCGPA_NoZeroGuard(semesters) ==
    IF Len(semesters) = 0 THEN 0
    ELSE toFixed2(forEachSemesterGradePoints(semesters, Len(semesters)),
                  forEachSemesterCredits(semesters, Len(semesters)))

\* calculateCGPA, given what Semester.find({ userId }).populate('courses')
\* returned.
calculateCGPA(semesters) ==
    IF Len(semesters) = 0 THEN 0
    ELSE IF forEachSemesterCredits(semesters, Len(semesters)) = 0 THEN 0
    ELSE toFixed2(forEachSemesterGradePoints(semesters, Len(semesters)),
                  forEachSemesterCredits(semesters, Len(semesters)))

\* reports.js has its own calculateSemesterGPA, over an already populated
\* semester document.
reportSemesterGPA(semester) ==
    IF Len(semester.courses) = 0 THEN 0
    ELSE toFixed2(reduceGradePoints(semester.courses, Len(semester.courses), 0),
                  reduceCredits(semester.courses, Len(semester.courses), 0))

\* ------------------------------------------------------------------------
\* server/routes/courses.js: GET /courses/stats/summary
\* ------------------------------------------------------------------------
\* Mutant: the summary's own scale drifts from the model's scale.
gradeScale_Drifted == [g \in Grades |->
    CASE g = "A" -> 4 [] g = "B" -> 3 [] g = "C" -> 2 [] g = "D" -> 0 [] g = "F" -> 0]

gradeScale == [g \in Grades |->
    CASE g = "A" -> 4 [] g = "B" -> 3 [] g = "C" -> 2 [] g = "D" -> 1 [] g = "F" -> 0]

RECURSIVE forEachGradePoints(_, _)
\* totalGradePoints after the first n courses of the first forEach.
forEachGradePoints(courses, n) ==
    IF n = 0 THEN 0
    ELSE JsAdd(forEachGradePoints(courses, n - 1),
               LookupTimes(gradeScale, courses[n].grade, courses[n].credits))

RECURSIVE forEachCredits(_, _)
\* totalCredits after the first n courses of the first forEach.
forEachCredits(courses, n) ==
    IF n = 0 THEN 0 ELSE JsAdd(forEachCredits(courses, n - 1), courses[n].credits)

\* Mutant: the entry is assigned, not added to.
Bump_Assigns(obj, key, n) ==
    IF key \in DOMAIN obj THEN [obj EXCEPT ![key] = n] ELSE obj @@ (key :> NaN)

\* obj[key]++ and obj[key] += n: a key the object lacks is created as NaN.
Bump(obj, key, n) ==
    IF key \in DOMAIN obj THEN [obj EXCEPT ![key] = JsAdd(@, n)]
    ELSE obj @@ (key :> NaN)

zeroDistribution == [g \in Grades |-> 0]

RECURSIVE forEachGradeDistribution(_, _)
\* gradeDistribution after the first n courses of the second forEach:
\* gradeDistribution[grade]++
forEachGradeDistribution(courses, n) ==
    IF n = 0 THEN zeroDistribution
    ELSE Bump(forEachGradeDistribution(courses, n - 1), courses[n].grade, 1)

RECURSIVE forEachCreditDistribution(_, _)
\* creditDistribution after the first n courses of the second forEach:
\* creditDistribution[grade] += course.credits
forEachCreditDistribution(courses, n) ==
    IF n = 0 THEN zeroDistribution
    ELSE Bump(forEachCreditDistribution(courses, n - 1), courses[n].grade,
              courses[n].credits)

\* The passRate closure, over the passedCourses and courses.length it captures.
passRate(passedCourses, length) ==
    IF length > 0 THEN MathRoundTimes100(passedCourses, length) ELSE 0

\* Mutant: the thresholds are exclusive.
getPerformanceLevel_Exclusive(gpaValue) ==
    IF JsGt(gpaValue, 350) THEN "Excellent"
    ELSE IF JsGt(gpaValue, 300) THEN "Good"
    ELSE IF JsGt(gpaValue, 250) THEN "Satisfactory"
    ELSE IF JsGt(gpaValue, 200) THEN "Fair"
    ELSE "Needs Improvement"

getPerformanceLevel(gpaValue) ==
    IF JsGe(gpaValue, 350) THEN "Excellent"
    ELSE IF JsGe(gpaValue, 300) THEN "Good"
    ELSE IF JsGe(gpaValue, 250) THEN "Satisfactory"
    ELSE IF JsGe(gpaValue, 200) THEN "Fair"
    ELSE "Needs Improvement"

\* The data of the 200 response, given what Course.find({ userId }) returned.
statsSummary(courses) ==
    IF Len(courses) = 0
    THEN [gpa |-> 0, cgpa |-> 0, totalCourses |-> 0, totalCredits |-> 0,
          stats |-> [gradeDistribution |-> zeroDistribution @@ ("passRate" :> 0),
                     creditDistribution |-> zeroDistribution,
                     performanceLevel |-> "N/A"]]
    ELSE LET totalGradePoints == forEachGradePoints(courses, Len(courses))
             totalCredits == forEachCredits(courses, Len(courses))
             gpa == IF JsGt(totalCredits, 0)
                    THEN toFixed2(totalGradePoints, totalCredits) ELSE 0
             gradeDistribution == forEachGradeDistribution(courses, Len(courses))
             creditDistribution == forEachCreditDistribution(courses, Len(courses))
             failedCourses == gradeDistribution["F"]
             passedCourses == Len(courses) - failedCourses
         IN  [gpa |-> gpa, cgpa |-> gpa,
              totalCourses |-> Len(courses), totalCredits |-> totalCredits,
              stats |-> [gradeDistribution |->
                             gradeDistribution
                                 @@ ("passRate" :> passRate(passedCourses, Len(courses))),
                         creditDistribution |-> creditDistribution,
                         performanceLevel |-> getPerformanceLevel(gpa),
                         averageCreditsPerCourse |-> toFixed2(totalCredits, Len(courses)),
                         courseDetails |->
                             [passed |-> passedCourses, failed |-> failedCourses]]]

\* ------------------------------------------------------------------------
\* The store and the authenticated requests
\* ------------------------------------------------------------------------
VARIABLES
    semesterDb,     \* the semesters collection: _id -> document
    courseDb,       \* the courses collection: _id -> document
    semesterSeq,    \* how many semester documents were ever created
    courseSeq,      \* how many course documents were ever created
    res,            \* the response to the last request (POST and PUT
                    \* /courses: with the body of the request it answers)
    coursesArg,     \* aggregation harness: a populated course list
    semestersArg,   \* aggregation harness: populated semesters of one user
    gpaArg,         \* aggregation harness: a GPA value, in hundredths
    ret,            \* aggregation harness: the last call and its result
    inflight,       \* the requests handled step by step, in the order they
                    \* arrived: each with its position and its locals
    userDb,         \* the users collection: _id -> document
    localStorage,   \* the browser's localStorage: key -> string
    auth,           \* the state of the useAuth hook
    app             \* the state of the frontend App

\* useState(false), useState(null), useState(true), useState(null) of useAuth
useAuthInitialState ==
    [isAuthenticated |-> FALSE, user |-> [type |-> "null"], loading |-> TRUE,
     token |-> [type |-> "null"]]

\* useState([]), useState(0) of App
AppInitialState == [courses |-> <<>>, gpa |-> [type |-> "number", v |-> 0]]

\* The frontend before any component is mounted, over an empty localStorage.
FrontendUnmounted ==
    /\ localStorage = <<>>
    /\ auth = useAuthInitialState
    /\ app = AppInitialState

storeVars == <<semesterDb, courseDb, semesterSeq, courseSeq, res>>
aggVars == <<coursesArg, semestersArg, gpaArg, ret>>
vars == <<semesterDb, courseDb, semesterSeq, courseSeq, res,
          coursesArg, semestersArg, gpaArg, ret, inflight, userDb,
          localStorage, auth, app>>
frontVars == <<localStorage, auth, app>>

\* req.user.userId of a request that passed verifyToken.
Users == {"u1", "u2"}

\* Object ids.  The n-th document created in a collection has _id n (an id
\* names no document before it is created and after it is deleted);
\* MalformedId is a string that is no 24-digit hex id.
SemesterIds == 1..MaxSemesterDocs
CourseIds == 1..MaxCourseDocs
MalformedId == 0 - 1

isValidObjectId(id) == id # MalformedId

isOwnedByUser(course, userId) == course.userId = userId

\* Model.findById(id)
findById(db, id) == IF id \in DOMAIN db THEN db[id] ELSE null

RECURSIVE SetToSeq(_)
\* The ids of a set in ascending (creation) order.
SetToSeq(S) ==
    IF S = {} THEN <<>>
    ELSE LET m == CHOOSE x \in S : \A y \in S : x <= y
         IN  <<m>> \o SetToSeq(S \ {m})

\* Model.find(filter): the matching documents in creation order.
find(db, ids) == [i \in 1..Cardinality(ids) |-> db[SetToSeq(ids)[i]]]

RECURSIVE populateRefs(_, _)
\* populate of an array of refs: the referenced documents that exist.
populateRefs(refs, db) ==
    IF refs = <<>> THEN <<>>
    ELSE (IF Head(refs) \in DOMAIN db THEN <<db[Head(refs)]>> ELSE <<>>)
             \o populateRefs(Tail(refs), db)

\* semester.populate('courses')
populate(semester, db) ==
    IF semester = null THEN null
    ELSE [semester EXCEPT !.courses = populateRefs(semester.courses, db)]

\* Semester.find({ userId }).populate('courses')
findSemestersOf(userId) ==
    LET ids == {i \in DOMAIN semesterDb : semesterDb[i].userId = userId}
    IN  [i \in 1..Cardinality(ids) |-> populate(semesterDb[SetToSeq(ids)[i]], courseDb)]

\* Course.find({ userId })
findCoursesOf(userId) ==
    find(courseDb, {i \in DOMAIN courseDb : courseDb[i].userId = userId})

\* Request body fields: a JSON value, or undefined when the field is absent.
\* NonInteger is the number 2.5 (typeof 'number', Number.isInteger false).
Num(n) == [type |-> "number", v |-> n]
Str(t) == [type |-> "string", v |-> t]
Undef == [type |-> "undefined"]
Null == [type |-> "null"]
NonInteger == [type |-> "fraction", v |-> 2]

\* !x for a body field
Falsy(x) ==
    \/ x.type = "undefined"
    \/ x.type = "null"
    \/ x.type = "number" /\ x.v = 0
    \/ x.type = "string" /\ x.v = ""

\* Strings: name.trim() and name.length > 100 for the names of the model.
BlankName == "   "
LongName == "a name of 101 characters"
trim(t) == IF t = BlankName THEN "" ELSE t
tooLong(t) == t = LongName

validateCourse(data) ==
    LET nameError ==
            \/ Falsy(data.name) \/ data.name.type # "string"
            \/ trim(data.name.v) = ""
            \/ tooLong(data.name.v)
        creditsError ==
            \/ data.credits.type = "undefined"
            \/ data.credits.type # "number"
            \/ data.credits.v < MinCredits \/ data.credits.v > MaxCredits
        gradeError ==
            \/ Falsy(data.grade)
            \/ data.grade.type # "string"
            \/ data.grade.v \notin Grades
    IN  [isValid |-> ~nameError /\ ~creditsError /\ ~gradeError,
         errors |-> [name |-> nameError, credits |-> creditsError, grade |-> gradeError]]

\* ------------------------------------------------------------------------
\* server/routes/semesters.js: handlers
\* ------------------------------------------------------------------------
SemesterTypes == {"Fall", "Spring", "Summer"}
MinSemesterNumber == 1
MinYear == 2000

\* The bodies of POST /semesters the model sends.
SemesterBodies ==
    {[semesterNumber |-> Num(1), year |-> Num(2024), semesterType |-> Str("Fall")],
     [semesterNumber |-> Num(0), year |-> Num(2024), semesterType |-> Str("Fall")],
     [semesterNumber |-> Num(1), year |-> Undef, semesterType |-> Str("Fall")],
     [semesterNumber |-> Num(1), year |-> Num(2024), semesterType |-> Str("Winter")],
     [semesterNumber |-> Num(1), year |-> Num(1999), semesterType |-> Str("Fall")]}

\* router.post('/')
PostSemester(u, body) ==
    /\ IF Falsy(body.semesterNumber) \/ Falsy(body.year) \/ Falsy(body.semesterType)
       THEN /\ res' = [op |-> "POST /semesters", status |-> 400, user |-> u]
            /\ UNCHANGED <<semesterDb, semesterSeq>>
       ELSE IF body.semesterType.v \notin SemesterTypes
       THEN /\ res' = [op |-> "POST /semesters", status |-> 400, user |-> u]
            /\ UNCHANGED <<semesterDb, semesterSeq>>
       ELSE IF body.semesterNumber.v < MinSemesterNumber \/ body.year.v < MinYear
       THEN \* semester.save() rejects: schema validation, passed to next(error)
            /\ res' = [op |-> "POST /semesters", status |-> 500, user |-> u]
            /\ UNCHANGED <<semesterDb, semesterSeq>>
       ELSE /\ semesterSeq < MaxSemesterDocs
            /\ semesterSeq' = semesterSeq + 1
            /\ semesterDb' = semesterDb @@ (semesterSeq + 1 :>
                    [userId |-> u, semesterNumber |-> body.semesterNumber.v,
                     year |-> body.year.v, semesterType |-> body.semesterType.v,
                     courses |-> <<>>, gpa |-> 0])
            /\ res' = [op |-> "POST /semesters", status |-> 201, user |-> u,
                       id |-> semesterSeq + 1]
    /\ UNCHANGED <<courseDb, courseSeq>>
    /\ UNCHANGED <<aggVars, inflight, userDb, frontVars>>

\* router.get('/'): the requester's semesters, courses populated, keyed by
\* _id (the sort order of the list is not modelled).
GetSemesters(u) ==
    /\ LET ids == {i \in DOMAIN semesterDb : semesterDb[i].userId = u}
       IN  res' = [op |-> "GET /semesters", status |-> 200, user |-> u,
                   count |-> Cardinality(ids),
                   data |-> [i \in ids |-> populate(semesterDb[i], courseDb)]]
    /\ UNCHANGED <<semesterDb, courseDb, semesterSeq, courseSeq>>
    /\ UNCHANGED <<aggVars, inflight, userDb, frontVars>>

\* Mutant: reading a semester refreshes its stored gpa from the courses that
\* reference it.
GetSemester_StoresGpa(u, id) ==
    /\ IF ~isValidObjectId(id)
       THEN /\ res' = [op |-> "GET /semesters/:id", status |-> 400, user |-> u, id |-> id]
            /\ UNCHANGED semesterDb
       ELSE IF findById(semesterDb, id) = null
       THEN /\ res' = [op |-> "GET /semesters/:id", status |-> 404, user |-> u, id |-> id]
            /\ UNCHANGED semesterDb
       ELSE IF semesterDb[id].userId # u
       THEN /\ res' = [op |-> "GET /semesters/:id", status |-> 403, user |-> u, id |-> id]
            /\ UNCHANGED semesterDb
       ELSE LET live == [semesterDb[id] EXCEPT !.courses =
                            find(courseDb, {c \in DOMAIN courseDb : courseDb[c].semesterId = id})]
            IN  /\ semesterDb' = [semesterDb EXCEPT ![id].gpa = calculateSemesterGPA(live)]
                /\ res' = [op |-> "GET /semesters/:id", status |-> 200, user |-> u, id |-> id,
                           data |-> populate(semesterDb'[id], courseDb)]
    /\ UNCHANGED <<courseDb, semesterSeq, courseSeq>>
    /\ UNCHANGED <<aggVars, inflight, userDb, frontVars>>

\* router.get('/:id')
GetSemester(u, id) ==
    /\ IF ~isValidObjectId(id)
       THEN res' = [op |-> "GET /semesters/:id", status |-> 400, user |-> u, id |-> id]
       ELSE IF findById(semesterDb, id) = null
       THEN res' = [op |-> "GET /semesters/:id", status |-> 404, user |-> u, id |-> id]
       ELSE IF semesterDb[id].userId # u
       THEN res' = [op |-> "GET /semesters/:id", status |-> 403, user |-> u, id |-> id]
       ELSE res' = [op |-> "GET /semesters/:id", status |-> 200, user |-> u, id |-> id,
                    data |-> populate(findById(semesterDb, id), courseDb)]
    /\ UNCHANGED <<semesterDb, courseDb, semesterSeq, courseSeq>>
    /\ UNCHANGED <<aggVars, inflight, userDb, frontVars>>

\* router.patch('/:id/calculate-gpa')
CalculateGpa(u, id) ==
    /\ IF ~isValidObjectId(id)
       THEN /\ res' = [op |-> "PATCH /semesters/:id/calculate-gpa", status |-> 400,
                       user |-> u, id |-> id]
            /\ UNCHANGED semesterDb
       ELSE IF findById(semesterDb, id) = null
       THEN /\ res' = [op |-> "PATCH /semesters/:id/calculate-gpa", status |-> 404,
                       user |-> u, id |-> id]
            /\ UNCHANGED semesterDb
       ELSE IF semesterDb[id].userId # u
       THEN /\ res' = [op |-> "PATCH /semesters/:id/calculate-gpa", status |-> 403,
                       user |-> u, id |-> id]
            /\ UNCHANGED semesterDb
       ELSE LET gpa == calculateSemesterGPA(populate(findById(semesterDb, id), courseDb))
            IN  /\ semesterDb' = [semesterDb EXCEPT ![id].gpa = gpa]
                /\ res' = [op |-> "PATCH /semesters/:id/calculate-gpa", status |-> 200,
                           user |-> u, id |-> id, gpa |-> gpa]
    /\ UNCHANGED <<courseDb, semesterSeq, courseSeq>>
    /\ UNCHANGED <<aggVars, inflight, userDb, frontVars>>

\* router.get('/analytics/cgpa')
GetAnalyticsCgpa(u) ==
    /\ LET cgpa == calculateCGPA(findSemestersOf(u))
           ids == {i \in DOMAIN semesterDb : semesterDb[i].userId = u}
           semesterData == [i \in ids |->
               [gpa |-> calculateSemesterGPA(populate(findById(semesterDb, i), courseDb)),
                courseCount |-> Len(populate(semesterDb[i], courseDb).courses)]]
       IN  res' = [op |-> "GET /semesters/analytics/cgpa", status |-> 200, user |-> u,
                   cgpa |-> cgpa, semesterCount |-> Cardinality(ids),
                   semesters |-> semesterData]
    /\ UNCHANGED <<semesterDb, courseDb, semesterSeq, courseSeq>>
    /\ UNCHANGED <<aggVars, inflight, userDb, frontVars>>

\* Mutant: the courses of the semester are kept.
deleteManyBySemester_Nothing(db, id) == db

\* Course.deleteMany({ semesterId: id })
deleteManyBySemester(db, id) ==
    [c \in {c \in DOMAIN db : db[c].semesterId # id} |-> db[c]]

\* router.delete('/:id')
DeleteSemester(u, id) ==
    /\ IF ~isValidObjectId(id)
       THEN /\ res' = [op |-> "DELETE /semesters/:id", status |-> 400, user |-> u, id |-> id]
            /\ UNCHANGED <<semesterDb, courseDb>>
       ELSE IF findById(semesterDb, id) = null
       THEN /\ res' = [op |-> "DELETE /semesters/:id", status |-> 404, user |-> u, id |-> id]
            /\ UNCHANGED <<semesterDb, courseDb>>
       ELSE IF semesterDb[id].userId # u
       THEN /\ res' = [op |-> "DELETE /semesters/:id", status |-> 403, user |-> u, id |-> id]
            /\ UNCHANGED <<semesterDb, courseDb>>
       ELSE \* Course.deleteMany({ semesterId: id }), Semester.findByIdAndDelete(id)
            /\ courseDb' = deleteManyBySemester(courseDb, id)
            /\ semesterDb' = [i \in DOMAIN semesterDb \ {id} |-> semesterDb[i]]
            /\ res' = [op |-> "DELETE /semesters/:id", status |-> 200, user |-> u, id |-> id]
    /\ UNCHANGED <<semesterSeq, courseSeq>>
    /\ UNCHANGED <<aggVars, inflight, userDb, frontVars>>

\* ------------------------------------------------------------------------
\* server/routes/courses.js: handlers
\* ------------------------------------------------------------------------
\* Mutant: the schema has no min and max on credits.
schemaRejects_NoRange(doc) ==
    \/ \E f \in DOMAIN doc : doc[f].type = "null"
    \/ "name" \in DOMAIN doc /\
           (doc.name.type # "string" \/ trim(doc.name.v) = "" \/ tooLong(doc.name.v))
    \/ "credits" \in DOMAIN doc /\ doc.credits.type # "number"
    \/ "grade" \in DOMAIN doc /\
           (doc.grade.type # "string" \/ doc.grade.v \notin Grades)

\* The Course schema's validators on the paths an insert or a $set names,
\* each path given as the JSON value to be written: TRUE when the write is
\* rejected with a ValidationError (required; maxlength after trim; min, max,
\* Number.isInteger; enum).
schemaRejects(doc) ==
    \/ \E f \in DOMAIN doc : doc[f].type = "null"
    \/ "name" \in DOMAIN doc /\
           (doc.name.type # "string" \/ trim(doc.name.v) = "" \/ tooLong(doc.name.v))
    \/ "credits" \in DOMAIN doc /\
           (\/ doc.credits.type # "number"
            \/ doc.credits.v < MinCredits \/ doc.credits.v > MaxCredits)
    \/ "grade" \in DOMAIN doc /\
           (doc.grade.type # "string" \/ doc.grade.v \notin Grades)

\* The paths of a semester document.
SemesterFields == {"userId", "semesterNumber", "year", "semesterType", "courses", "gpa"}

\* course.populate('semesterId', fields): the semester's _id and the selected
\* fields in place of the reference, null when no such semester exists.
populateSemesterId(course, fields) ==
    IF course.semesterId \in DOMAIN semesterDb
    THEN [course EXCEPT !.semesterId =
             [f \in fields \cup {"_id"} |->
                 IF f = "_id" THEN course.semesterId
                 ELSE semesterDb[course.semesterId][f]]]
    ELSE [course EXCEPT !.semesterId = null]

\* router.get('/'): the requester's courses keyed by _id (the sort order of
\* the list is not modelled).
GetCourses(u) ==
    /\ LET ids == {i \in DOMAIN courseDb : courseDb[i].userId = u}
       IN  res' = [op |-> "GET /courses", status |-> 200, user |-> u,
                   count |-> Cardinality(ids),
                   data |-> [i \in ids |->
                       populateSemesterId(courseDb[i],
                           {"semesterNumber", "year", "semesterType"})]]
    /\ UNCHANGED <<semesterDb, courseDb, semesterSeq, courseSeq>>
    /\ UNCHANGED <<aggVars, inflight, userDb, frontVars>>

\* router.get('/:id')
GetCourse(u, id) ==
    /\ IF ~isValidObjectId(id)
       THEN res' = [op |-> "GET /courses/:id", status |-> 400, user |-> u, id |-> id,
                    code |-> "INVALID_ID_FORMAT"]
       ELSE IF findById(courseDb, id) = null
       THEN res' = [op |-> "GET /courses/:id", status |-> 404, user |-> u, id |-> id,
                    code |-> "COURSE_NOT_FOUND"]
       ELSE IF ~isOwnedByUser(findById(courseDb, id), u)
       THEN res' = [op |-> "GET /courses/:id", status |-> 403, user |-> u, id |-> id,
                    code |-> "UNAUTHORIZED"]
       ELSE res' = [op |-> "GET /courses/:id", status |-> 200, user |-> u, id |-> id,
                    code |-> "OK",
                    data |-> populateSemesterId(courseDb[id], SemesterFields)]
    /\ UNCHANGED <<semesterDb, courseDb, semesterSeq, courseSeq>>
    /\ UNCHANGED <<aggVars, inflight, userDb, frontVars>>

\* The bodies of POST /courses of the whole store's specification: valid ones
\* for every semester id, and one that fails validation.
PostCourseBodies ==
    [name : {Str("Calculus I")}, credits : {Num(3)}, grade : {Str("A")},
     semesterId : SemesterIds \cup {MalformedId}]
    \cup
    [name : {Str("Calculus I")}, credits : {Num(5)},
     grade : {Str("A")}, semesterId : {MaxSemesterDocs}]

\* router.post('/')
PostCourse(u, body) ==
    /\ IF ~validateCourse([name |-> body.name, credits |-> body.credits,
                           grade |-> body.grade]).isValid
       THEN /\ res' = [op |-> "POST /courses", status |-> 400, user |-> u,
                       code |-> "VALIDATION_ERROR", body |-> body]
            /\ UNCHANGED <<courseDb, courseSeq>>
       ELSE IF ~isValidObjectId(body.semesterId)
       THEN /\ res' = [op |-> "POST /courses", status |-> 400, user |-> u,
                       code |-> "INVALID_SEMESTER_ID", body |-> body]
            /\ UNCHANGED <<courseDb, courseSeq>>
       ELSE LET paths == [name |-> Str(trim(body.name.v)), credits |-> body.credits,
                          grade |-> body.grade]
                course == [userId |-> u, semesterId |-> body.semesterId,
                           name |-> paths.name.v, credits |-> paths.credits.v,
                           grade |-> paths.grade.v]
            IN  IF schemaRejects(paths)
                THEN /\ res' = [op |-> "POST /courses", status |-> 500, user |-> u,
                                code |-> "ValidationError", body |-> body]
                     /\ UNCHANGED <<courseDb, courseSeq>>
                ELSE /\ courseSeq < MaxCourseDocs
                     /\ courseSeq' = courseSeq + 1
                     /\ courseDb' = courseDb @@ (courseSeq + 1 :> course)
                     /\ res' = [op |-> "POST /courses", status |-> 201, user |-> u,
                                id |-> courseSeq + 1, code |-> "OK", body |-> body]
    /\ UNCHANGED <<semesterDb, semesterSeq>>
    /\ UNCHANGED <<aggVars, inflight, userDb, frontVars>>

\* The bodies of PUT /courses/:id of the whole store's specification: a valid
\* one, one that fails validateCourse, one that only the schema rejects, and
\* one whose name is no string.
PutCourseBodies ==
    [name : {Undef}, credits : {Undef, Num(0), Num(5)}, grade : {Str("F")}]
    \cup
    [name : {Null}, credits : {Undef}, grade : {Undef}]

\* x || fallback, on a field of updateData (absent fields read undefined)
OrElse(updateData, field, fallback) ==
    IF field \in DOMAIN updateData /\ ~Falsy(updateData[field])
    THEN updateData[field]
    ELSE fallback

\* Mutant: the fields the body lacks are updated too, to the values the
\* validation step substitutes for them.
updateDataOf_WithFallbacks(body) ==
    [f \in {"name", "credits", "grade"} |->
        IF body[f].type = "undefined"
        THEN (CASE f = "name" -> Str("temp") [] f = "credits" -> Num(1)
                [] f = "grade" -> Str("A"))
        ELSE IF f = "name" THEN Str(trim(body.name.v)) ELSE body[f]]

\* Step 2 of router.put('/:id'): only the provided fields (name is a string
\* here: name.trim() of another value throws).
updateDataOf(body) ==
    LET present == {f \in {"name", "credits", "grade"} : body[f].type # "undefined"}
    IN  [f \in present |-> IF f = "name" THEN Str(trim(body.name.v)) ELSE body[f]]

\* router.put('/:id')
PutCourse(u, id, body) ==
    /\ LET updateData == updateDataOf(body)
           validation == validateCourse(
               [name |-> OrElse(updateData, "name", Str("temp")),
                credits |-> OrElse(updateData, "credits", Num(1)),
                grade |-> OrElse(updateData, "grade", Str("A"))])
           answer(status, code) ==
               [op |-> "PUT /courses/:id", status |-> status, user |-> u,
                id |-> id, code |-> code, body |-> body]
       IN  IF ~isValidObjectId(id)
           THEN res' = answer(400, "INVALID_ID_FORMAT") /\ UNCHANGED courseDb
           ELSE IF body.name.type \notin {"undefined", "string"}
           THEN \* name.trim() throws a TypeError, passed to next(error)
                res' = answer(500, "TypeError") /\ UNCHANGED courseDb
           ELSE IF DOMAIN updateData # {} /\ ~validation.isValid
           THEN res' = answer(400, "VALIDATION_ERROR") /\ UNCHANGED courseDb
           ELSE IF findById(courseDb, id) = null
           THEN res' = answer(404, "COURSE_NOT_FOUND") /\ UNCHANGED courseDb
           ELSE IF ~isOwnedByUser(findById(courseDb, id), u)
           THEN res' = answer(403, "UNAUTHORIZED") /\ UNCHANGED courseDb
           ELSE IF schemaRejects(updateData)
           THEN \* findByIdAndUpdate with runValidators rejects, next(error)
                res' = answer(500, "ValidationError") /\ UNCHANGED courseDb
           ELSE /\ courseDb' = [courseDb EXCEPT ![id] =
                        [f \in DOMAIN @ |-> IF f \in DOMAIN updateData
                                            THEN updateData[f].v ELSE @[f]]]
                /\ res' = answer(200, "OK")
    /\ UNCHANGED <<semesterDb, semesterSeq, courseSeq>>
    /\ UNCHANGED <<aggVars, inflight, userDb, frontVars>>

\* router.delete('/:id')
DeleteCourse(u, id) ==
    /\ IF ~isValidObjectId(id)
       THEN /\ res' = [op |-> "DELETE /courses/:id", status |-> 400, user |-> u,
                       id |-> id, code |-> "INVALID_ID_FORMAT"]
            /\ UNCHANGED courseDb
       ELSE IF findById(courseDb, id) = null
       THEN /\ res' = [op |-> "DELETE /courses/:id", status |-> 404, user |-> u,
                       id |-> id, code |-> "COURSE_NOT_FOUND"]
            /\ UNCHANGED courseDb
       ELSE IF ~isOwnedByUser(findById(courseDb, id), u)
       THEN /\ res' = [op |-> "DELETE /courses/:id", status |-> 403, user |-> u,
                       id |-> id, code |-> "UNAUTHORIZED"]
            /\ UNCHANGED courseDb
       ELSE /\ courseDb' = [c \in DOMAIN courseDb \ {id} |-> courseDb[c]]
            /\ res' = [op |-> "DELETE /courses/:id", status |-> 200, user |-> u,
                       id |-> id, code |-> "OK"]
    /\ UNCHANGED <<semesterDb, semesterSeq, courseSeq>>
    /\ UNCHANGED <<aggVars, inflight, userDb, frontVars>>

\* router.get('/stats/summary')
GetStatsSummary(u) ==
    /\ res' = [op |-> "GET /courses/stats/summary", status |-> 200, user |-> u,
               data |-> statsSummary(findCoursesOf(u))]
    /\ UNCHANGED <<semesterDb, courseDb, semesterSeq, courseSeq>>
    /\ UNCHANGED <<aggVars, inflight, userDb, frontVars>>

\* ------------------------------------------------------------------------
\* Specification of the store: any sequence of authenticated requests
\* ------------------------------------------------------------------------
AggIdle ==
    /\ coursesArg = <<>>
    /\ semestersArg = <<>>
    /\ gpaArg = 0
    /\ ret = [fn |-> "none"]

StoreEmpty ==
    /\ semesterDb = <<>>
    /\ courseDb = <<>>
    /\ semesterSeq = 0
    /\ courseSeq = 0
    /\ res = [op |-> "none", status |-> 0]
    /\ inflight = <<>>
    /\ userDb = <<>>
    /\ FrontendUnmounted

Init == StoreEmpty /\ AggIdle

Next ==
    \/ \E u \in Users, body \in SemesterBodies : PostSemester(u, body)
    \/ \E u \in Users : GetSemesters(u)
    \/ \E u \in Users, id \in SemesterIds \cup {MalformedId} : GetSemester(u, id)
    \/ \E u \in Users, id \in SemesterIds \cup {MalformedId} : CalculateGpa(u, id)
    \/ \E u \in Users : GetAnalyticsCgpa(u)
    \/ \E u \in Users, id \in SemesterIds \cup {MalformedId} : DeleteSemester(u, id)
    \/ \E u \in Users : GetCourses(u)
    \/ \E u \in Users, id \in CourseIds \cup {MalformedId} : GetCourse(u, id)
    \/ \E u \in Users, body \in PostCourseBodies : PostCourse(u, body)
    \/ \E u \in Users, id \in CourseIds \cup {MalformedId}, body \in PutCourseBodies :
           PutCourse(u, id, body)
    \/ \E u \in Users, id \in CourseIds \cup {MalformedId} : DeleteCourse(u, id)
    \/ \E u \in Users : GetStatsSummary(u)

Spec == Init /\ [][Next]_vars

\* ------------------------------------------------------------------------
\* Specification of the courses router on its own: any sequence of POST, PUT
\* and DELETE requests with arbitrary bodies
\* ------------------------------------------------------------------------
\* The semester every well-formed POST of this specification names.
TheSemester == MaxSemesterDocs

\* Bodies of POST /courses: valid ones, and ones with one field missing,
\* null, of the wrong type or out of range.
ArbitraryPostBodies ==
    [name : {Str("Calculus I")}, credits : {Num(3)}, grade : {Str("A"), Str("F")},
     semesterId : {TheSemester, MalformedId}]
    \cup
    [name : {Undef, Null, Str(BlankName), Str(LongName)}, credits : {Num(3)},
     grade : {Str("A")}, semesterId : {TheSemester}]
    \cup
    [name : {Str("Calculus I")},
     credits : {Undef, Null, Num(0), Num(5), NonInteger, Str("3")},
     grade : {Str("A")}, semesterId : {TheSemester}]
    \cup
    [name : {Str("Calculus I")}, credits : {Num(3)},
     grade : {Undef, Null, Str(""), Str("E")}, semesterId : {TheSemester}]

\* Bodies of PUT /courses/:id: no field, one or two valid fields, and bodies
\* with one violating field (alone, or next to a valid one).
ArbitraryPutBodies ==
    [name : {Undef}, credits : {Undef}, grade : {Undef, Str("F")}]
    \cup
    [name : {Undef}, credits : {Num(4)}, grade : {Str("F")}]
    \cup
    [name : {Str("Calculus II"), Null, Str(BlankName), Str(LongName)},
     credits : {Undef}, grade : {Undef}]
    \cup
    [name : {Undef}, credits : {Null, Num(0), Num(5), NonInteger}, grade : {Undef}]
    \cup
    [name : {Undef}, credits : {Num(0)}, grade : {Str("F")}]
    \cup
    [name : {Undef}, credits : {Undef}, grade : {Null, Str(""), Str("E")}]

\* The bodies sent with a malformed id: a valid and a violating one.
MalformedIdPutBodies ==
    [name : {Undef}, credits : {Undef, Num(5)}, grade : {Str("F")}]

CoursesNext ==
    \/ \E u \in Users, body \in ArbitraryPostBodies : PostCourse(u, body)
    \/ \E u \in Users, id \in CourseIds, body \in ArbitraryPutBodies :
           PutCourse(u, id, body)
    \/ \E u \in Users, body \in MalformedIdPutBodies : PutCourse(u, MalformedId, body)
    \/ \E u \in Users, id \in CourseIds \cup {MalformedId} : DeleteCourse(u, id)

SpecCourses == Init /\ [][CoursesNext]_vars

\* ------------------------------------------------------------------------
\* Specification of concurrent requests: PATCH /semesters/:id/calculate-gpa
\* and PUT /courses/:id, each suspended at its awaits, over a semester whose
\* courses list holds its course
\* ------------------------------------------------------------------------
MaxRequests == 4

\* The number of PUT /courses/:id requests that have been answered.
PutsDone == Cardinality({r \in DOMAIN inflight :
                            inflight[r].op = "PUT" /\ inflight[r].pc = "done"})

\* The store holds one semester, with its one course in its courses list;
\* its gpa is the 0 it was created with or the GPA of the course.
RaceInit ==
    /\ courseDb = (1 :> [userId |-> "u1", semesterId |-> 1, name |-> "Calculus I",
                         credits |-> 3, grade |-> "A"])
    /\ courseSeq = 1
    /\ \E gpa \in {0, calculateSemesterGPA([courses |-> <<courseDb[1]>>])} :
           semesterDb = (1 :> [userId |-> "u1", semesterNumber |-> 1, year |-> 2024,
                               semesterType |-> "Fall", courses |-> <<1>>,
                               gpa |-> gpa])
    /\ semesterSeq = 1
    /\ res = [op |-> "none", status |-> 0]
    /\ inflight = <<>>
    /\ userDb = <<>>
    /\ FrontendUnmounted
    /\ AggIdle

\* router.patch('/:id/calculate-gpa') up to its first await: the request of
\* the owner for an existing semester loads the document.  after is the
\* number of course updates answered before the request arrived (history,
\* not a local of the handler).
BeginCalculateGpa(u, id) ==
    /\ Len(inflight) < MaxRequests
    /\ isValidObjectId(id)
    /\ findById(semesterDb, id) # null
    /\ semesterDb[id].userId = u
    /\ inflight' = Append(inflight,
           [op |-> "PATCH", pc |-> "calculate", user |-> u, id |-> id,
            semester |-> findById(semesterDb, id), after |-> PutsDone])
    /\ UNCHANGED <<storeVars, aggVars, userDb, frontVars>>

\* const gpa = await calculateSemesterGPA(id)
AwaitCalculateSemesterGPA(r) ==
    /\ r \in DOMAIN inflight
    /\ inflight[r].op = "PATCH" /\ inflight[r].pc = "calculate"
    /\ LET gpa == calculateSemesterGPA(
                      populate(findById(semesterDb, inflight[r].id), courseDb))
       IN  inflight' = [inflight EXCEPT ![r] =
                            [@ EXCEPT !.pc = "save"] @@ ("gpa" :> gpa)]
    /\ UNCHANGED <<storeVars, aggVars, userDb, frontVars>>

\* semester.gpa = gpa; await semester.save(); res.status(200).json(...)
\* save() writes the paths of the loaded document that were modified: gpa,
\* when the assigned value differs from the loaded one.
AwaitSave(r) ==
    /\ r \in DOMAIN inflight
    /\ inflight[r].op = "PATCH" /\ inflight[r].pc = "save"
    /\ LET req == inflight[r]
       IN  /\ semesterDb' =
                   IF req.gpa # req.semester.gpa /\ req.id \in DOMAIN semesterDb
                   THEN [semesterDb EXCEPT ![req.id].gpa = req.gpa]
                   ELSE semesterDb
           /\ res' = [op |-> "PATCH /semesters/:id/calculate-gpa", status |-> 200,
                      user |-> req.user, id |-> req.id, gpa |-> req.gpa]
    /\ inflight' = [inflight EXCEPT ![r].pc = "done"]
    /\ UNCHANGED <<courseDb, semesterSeq, courseSeq>>
    /\ UNCHANGED <<aggVars, userDb, frontVars>>

\* The bodies of PUT /courses/:id of this specification: a new grade.
RacePutBodies == [name : {Undef}, credits : {Undef}, grade : {Str("A"), Str("F")}]

\* router.put('/:id') up to Course.findById: the request of the owner with a
\* valid body for an existing course.
BeginPutCourse(u, id, body) ==
    /\ Len(inflight) < MaxRequests
    /\ isValidObjectId(id)
    /\ body.name.type \in {"undefined", "string"}
    /\ LET updateData == updateDataOf(body)
           validation == validateCourse(
               [name |-> OrElse(updateData, "name", Str("temp")),
                credits |-> OrElse(updateData, "credits", Num(1)),
                grade |-> OrElse(updateData, "grade", Str("A"))])
       IN  /\ DOMAIN updateData = {} \/ validation.isValid
           /\ findById(courseDb, id) # null
           /\ isOwnedByUser(findById(courseDb, id), u)
           /\ inflight' = Append(inflight,
                  [op |-> "PUT", pc |-> "update", user |-> u, id |-> id,
                   body |-> body, updateData |-> updateData])
    /\ UNCHANGED <<storeVars, aggVars, userDb, frontVars>>

\* await Course.findByIdAndUpdate(id, updateData, ...); res.status(200)
AwaitFindByIdAndUpdate(r) ==
    /\ r \in DOMAIN inflight
    /\ inflight[r].op = "PUT" /\ inflight[r].pc = "update"
    /\ LET req == inflight[r]
           answer(status, code) ==
               [op |-> "PUT /courses/:id", status |-> status, user |-> req.user,
                id |-> req.id, code |-> code, body |-> req.body]
       IN  IF schemaRejects(req.updateData)
           THEN res' = answer(500, "ValidationError") /\ UNCHANGED courseDb
           ELSE /\ courseDb' =
                       IF req.id \in DOMAIN courseDb
                       THEN [courseDb EXCEPT ![req.id] =
                                [f \in DOMAIN @ |-> IF f \in DOMAIN req.updateData
                                                    THEN req.updateData[f].v ELSE @[f]]]
                       ELSE courseDb
                /\ res' = answer(200, "OK")
    /\ inflight' = [inflight EXCEPT ![r].pc = "done"]
    /\ UNCHANGED <<semesterDb, semesterSeq, courseSeq>>
    /\ UNCHANGED <<aggVars, userDb, frontVars>>

RaceNext ==
    \/ \E u \in Users, id \in SemesterIds : BeginCalculateGpa(u, id)
    \/ \E r \in 1..MaxRequests : AwaitCalculateSemesterGPA(r)
    \/ \E r \in 1..MaxRequests : AwaitSave(r)
    \/ \E u \in Users, id \in CourseIds, body \in RacePutBodies : BeginPutCourse(u, id, body)
    \/ \E r \in 1..MaxRequests : AwaitFindByIdAndUpdate(r)

SpecRace == RaceInit /\ [][RaceNext]_vars

\* ------------------------------------------------------------------------
\* server/routes/auth.js, server/models/User.js: POST /register, suspended
\* at its awaits
\* ------------------------------------------------------------------------
MaxRegistrations == 3

\* The email addresses the model sends: two spellings of one address, a
\* second address, an address the schema's pattern rejects (a top-level
\* domain of four letters) and a string that is no address.
Emails == {"ann@x.edu", "Ann@X.edu", "bob@x.edu", "ann@x.info", "ann.x.edu"}

\* String.prototype.toLowerCase on the strings of the model.
toLowerCase(t) == IF t = "Ann@X.edu" THEN "ann@x.edu" ELSE t

\* body('email').normalizeEmail(): an address outside the providers with
\* rules of their own is lowercased.
normalizeEmail(email) == toLowerCase(email)

\* body('email').isEmail().isLength({ max: 100 })
isEmail(email) == email # "ann.x.edu"

\* email: match /^\w+([.-]?\w+)*@\w+([.-]?\w+)*(\.\w{2,3})+$/
matchesEmailPattern(email) == email \notin {"ann@x.info", "ann.x.edu"}

\* body('name'): trimmed, 2 to 50 letters and spaces.
isValidName(name) == name = "Ann Lee"

\* body('password'): 6 characters or more, with a lowercase letter, an
\* uppercase letter and a digit.
isValidPassword(password) == password = "Secret1"

\* bcryptjs.hash(password, salt)
hash(password) == <<"$2b$10$", password>>

RegisterBodies ==
    [name : {"Ann Lee"}, email : Emails, password : {"Secret1", "secret"},
     passwordConfirm : {"Secret1"}]

\* User.findOne({ email }): the query value passes the lowercase setter of
\* the path.
findOneByEmail(db, email) ==
    IF \E u \in DOMAIN db : db[u].email = toLowerCase(email)
    THEN db[CHOOSE u \in DOMAIN db : db[u].email = toLowerCase(email)]
    ELSE null

\* Mutant: the collection has no unique index on email.
uniqueIndexRejects_NoIndex(db, email) == FALSE

\* email: unique: true.  The insert of a second document with the same
\* email fails with a duplicate key error.
uniqueIndexRejects(db, email) == \E u \in DOMAIN db : db[u].email = email

\* router.post('/register') up to User.findOne: the validation chain, the
\* lookup and the 409.
BeginRegister(body) ==
    /\ Len(inflight) < MaxRegistrations
    /\ LET email == normalizeEmail(body.email)
           request(pc) == [op |-> "POST /register", pc |-> pc, body |-> body,
                           email |-> email]
           answer(status, code) ==
               [op |-> "POST /register", status |-> status, code |-> code,
                body |-> body]
       IN  IF \/ ~isValidName(body.name)
              \/ ~isEmail(email)
              \/ ~isValidPassword(body.password)
              \/ body.passwordConfirm # body.password
           THEN /\ res' = answer(400, "Validation failed")
                /\ inflight' = Append(inflight, request("done"))
           ELSE IF findOneByEmail(userDb, email) # null
           THEN /\ res' = answer(409, "EMAIL_EXISTS")
                /\ inflight' = Append(inflight, request("done"))
           ELSE /\ UNCHANGED res
                /\ inflight' = Append(inflight, request("save"))
    /\ UNCHANGED <<semesterDb, courseDb, semesterSeq, courseSeq, userDb>>
    /\ UNCHANGED <<aggVars, frontVars>>

\* new User({...}); await user.save(); res.status(201): the schema's
\* validators, the pre('save') hook that hashes the password, the insert.
\* An error of save() has no status: the error handler answers 500.
AwaitUserSave(r) ==
    /\ r \in DOMAIN inflight
    /\ inflight[r].op = "POST /register" /\ inflight[r].pc = "save"
    /\ LET req == inflight[r]
           user == [name |-> req.body.name, email |-> toLowerCase(req.email),
                    password |-> hash(req.body.password), role |-> "student"]
           answer(status, code) ==
               [op |-> "POST /register", status |-> status, code |-> code,
                body |-> req.body]
       IN  IF ~matchesEmailPattern(user.email)
           THEN res' = answer(500, "ValidationError") /\ UNCHANGED userDb
           ELSE IF uniqueIndexRejects(userDb, user.email)
           THEN res' = answer(500, "E11000") /\ UNCHANGED userDb
           ELSE /\ userDb' = userDb @@ (Cardinality(DOMAIN userDb) + 1 :> user)
                /\ res' = answer(201, "OK")
    /\ inflight' = [inflight EXCEPT ![r].pc = "done"]
    /\ UNCHANGED <<semesterDb, courseDb, semesterSeq, courseSeq>>
    /\ UNCHANGED <<aggVars, frontVars>>

\* body('password').notEmpty().isLength({ min: 1 })
notEmpty(password) == password # ""

\* user.matchPassword(enteredPassword): bcryptjs.compare with the stored hash
matchPassword(user, enteredPassword) == user.password = hash(enteredPassword)

\* generateToken(userId): the signed payload
generateToken(userId) == <<"signed", [userId |-> userId]>>

\* The _id of the document findOneByEmail returns.
idOfEmail(db, email) == CHOOSE u \in DOMAIN db : db[u].email = toLowerCase(email)

LoginBodies ==
    [email : {"ann@x.edu", "Ann@X.edu", "bob@x.edu", "ann.x.edu"},
     password : {"Secret1", "Wrong1", ""}]

\* Mutant: a login for an unknown email is told so.
login_TellsUnknownEmail(db, body) ==
    LET email == normalizeEmail(body.email)
        user == findOneByEmail(db, email)
    IN  IF ~isEmail(email) \/ ~notEmpty(body.password)
        THEN [status |-> 400, success |-> FALSE, message |-> "Validation failed"]
        ELSE IF user = null
        THEN [status |-> 401, success |-> FALSE, message |-> "No account for this email",
              code |-> "USER_NOT_FOUND"]
        ELSE IF ~matchPassword(user, body.password)
        THEN [status |-> 401, success |-> FALSE, message |-> "Invalid credentials",
              code |-> "INVALID_CREDENTIALS"]
        ELSE [status |-> 200, success |-> TRUE, message |-> "Logged in successfully",
              token |-> generateToken(idOfEmail(db, email)),
              user |-> [id |-> idOfEmail(db, email), name |-> user.name,
                        email |-> user.email, role |-> user.role]]

\* router.post('/login'): the status and the JSON of the response.
login(db, body) ==
    LET email == normalizeEmail(body.email)
        user == findOneByEmail(db, email)
    IN  IF ~isEmail(email) \/ ~notEmpty(body.password)
        THEN [status |-> 400, success |-> FALSE, message |-> "Validation failed"]
        ELSE IF user = null
        THEN [status |-> 401, success |-> FALSE, message |-> "Invalid credentials",
              code |-> "INVALID_CREDENTIALS"]
        ELSE IF ~matchPassword(user, body.password)
        THEN [status |-> 401, success |-> FALSE, message |-> "Invalid credentials",
              code |-> "INVALID_CREDENTIALS"]
        ELSE [status |-> 200, success |-> TRUE, message |-> "Logged in successfully",
              token |-> generateToken(idOfEmail(db, email)),
              user |-> [id |-> idOfEmail(db, email), name |-> user.name,
                        email |-> user.email, role |-> user.role]]

PostLogin(body) ==
    /\ res' = [op |-> "POST /login", status |-> login(userDb, body).status,
               body |-> body, json |-> login(userDb, body)]
    /\ UNCHANGED <<semesterDb, courseDb, semesterSeq, courseSeq, userDb, inflight>>
    /\ UNCHANGED <<aggVars, frontVars>>

AuthNext ==
    \/ \E body \in RegisterBodies : BeginRegister(body)
    \/ \E r \in 1..MaxRegistrations : AwaitUserSave(r)
    \/ \E body \in LoginBodies : PostLogin(body)

SpecAuth == Init /\ [][AuthNext]_vars

\* ------------------------------------------------------------------------
\* server/middleware/authMiddleware.js: verifyToken, applied to the headers
\* of a request
\* ------------------------------------------------------------------------
\* Tokens: two that verify (of two users), one past its exp, one whose
\* signature does not match, one before its nbf.
Tokens == {"token of u1", "token of u2", "expired token", "tampered token",
           "token not yet valid"}

\* A header value is written as the sequence of the parts that split(' ')
\* gives: <<"Bearer", t>> is "Bearer t", <<"Bearer", "", t>> is "Bearer  t".
AuthorizationHeaders ==
    {Undef} \cup {Str(<<"Bearer">>)}
        \cup {Str(<<"Bearer", t>>) : t \in Tokens}
        \cup {Str(<<"Basic", t>>) : t \in Tokens}
        \cup {Str(<<"Bearer", "", t>>) : t \in Tokens}

XAuthTokenHeaders == {Undef, Str("")} \cup {Str(t) : t \in Tokens}

\* jwt.verify(token, process.env.JWT_SECRET): the decoded payload, or the
\* error thrown.  Without a secret every token is refused before its exp is
\* looked at.
jwtVerify(token, secretSet) ==
    IF ~secretSet THEN [error |-> "JsonWebTokenError"]
    ELSE CASE token = "token of u1" -> [decoded |-> [userId |-> "u1"]]
           [] token = "token of u2" -> [decoded |-> [userId |-> "u2"]]
           [] token = "expired token" -> [error |-> "TokenExpiredError"]
           [] token = "token not yet valid" -> [error |-> "NotBeforeError"]
           [] OTHER -> [error |-> "JsonWebTokenError"]

\* Mutant: the custom header is looked at first.
extractToken_FallbackFirst(headers) ==
    IF ~Falsy(headers.xAuthToken) THEN headers.xAuthToken
    ELSE IF headers.authorization.type = "undefined" THEN Undef
    ELSE IF Len(headers.authorization.v) < 2 THEN Undef
    ELSE Str(headers.authorization.v[2])

\* req.headers.authorization?.split(' ')[1] || req.headers['x-auth-token']
extractToken(headers) ==
    LET second == IF headers.authorization.type = "undefined" THEN Undef
                  ELSE IF Len(headers.authorization.v) < 2 THEN Undef
                  ELSE Str(headers.authorization.v[2])
    IN  IF ~Falsy(second) THEN second ELSE headers.xAuthToken

\* verifyToken(req, res, next): what it leaves behind, the status of the
\* response it sent (0: none), the number of calls of next and req.user.
verifyToken(headers, secretSet) ==
    LET token == extractToken(headers)
        outcome(status, code, calls, user) ==
            [fn |-> "verifyToken", headers |-> headers, secretSet |-> secretSet,
             status |-> status, code |-> code, nextCalls |-> calls, user |-> user]
    IN  IF Falsy(token) THEN outcome(401, "none", 0, Undef)
        ELSE LET verified == jwtVerify(token.v, secretSet)
             IN  IF "decoded" \in DOMAIN verified
                 THEN outcome(0, "none", 1, verified.decoded)
                 ELSE IF verified.error = "TokenExpiredError"
                 THEN outcome(401, "TOKEN_EXPIRED", 0, Undef)
                 ELSE IF verified.error = "JsonWebTokenError"
                 THEN outcome(401, "INVALID_TOKEN", 0, Undef)
                 ELSE outcome(401, "AUTH_ERROR", 0, Undef)

CallVerifyToken(headers, secretSet) ==
    /\ ret' = verifyToken(headers, secretSet)
    /\ UNCHANGED <<coursesArg, semestersArg, gpaArg>>
    /\ UNCHANGED <<storeVars, inflight, userDb, frontVars>>

VerifyNext ==
    \E authorization \in AuthorizationHeaders, xAuthToken \in XAuthTokenHeaders,
       secretSet \in BOOLEAN :
        CallVerifyToken([authorization |-> authorization, xAuthToken |-> xAuthToken],
                        secretSet)

SpecVerify == Init /\ [][VerifyNext]_vars

\* ------------------------------------------------------------------------
\* Specification of the aggregation functions: each is applied to inputs
\* drawn from bounded sets of populated documents
\* ------------------------------------------------------------------------
\* A transcript of n one-credit courses, the first f of them failed and the
\* others graded g.
Transcript(n, f, g) ==
    [i \in 1..n |-> IF i <= f THEN [credits |-> 1, grade |-> "F"]
                    ELSE [credits |-> 1, grade |-> g]]

\* The pool split into n semesters: semester i holds the courses after cut
\* i - 1 up to cut i (cut 0 is 0, cut n is the end of the pool).
Split(pool, n, cuts) ==
    [i \in 1..n |->
        [courses |-> SubSeq(pool,
                            (IF i = 1 THEN 0 ELSE cuts[i - 1]) + 1,
                            IF i = n THEN Len(pool) ELSE cuts[i])]]

\* The cuts of a pool of len courses into n >= 1 semesters, empty semesters
\* included.
CutsOf(len, n) ==
    {c \in [1..(n - 1) -> 0..len] : \A i \in 1..(n - 2) : c[i] <= c[i + 1]}

\* The largest GPA, in hundredths.
MaxGpa == 100 * gradePointMap["A"]

AggInit ==
    /\ StoreEmpty
    /\ ret = [fn |-> "none"]
    /\ \/ /\ \/ \E k \in 0..MaxCourses : coursesArg \in [1..k -> CourseKinds]
             \/ \E n \in 1..MaxTranscript, g \in Grades :
                    \E f \in 0..n : coursesArg = Transcript(n, f, g)
          /\ semestersArg = <<>>
          /\ gpaArg = 0
       \/ /\ coursesArg = <<>>
          /\ \/ semestersArg = <<>>
             \/ \E k \in 0..MaxPool, n \in 1..MaxSemesters :
                    \E pool \in [1..k -> CourseKinds], cuts \in CutsOf(k, n) :
                        semestersArg = Split(pool, n, cuts)
             \/ \E n \in 1..MaxTranscript, g \in Grades :
                    \E f \in 0..n :
                        semestersArg = Split(Transcript(n, f, g), 2, <<f>>)
          /\ gpaArg = 0
       \/ /\ coursesArg = <<>>
          /\ semestersArg = <<>>
          /\ gpaArg \in 0..MaxGpa

\* Each function is applied to the argument it reads; the other two
\* arguments are then at their idle values.
CallGradePoints ==
    /\ Len(coursesArg) = 1 /\ semestersArg = <<>> /\ gpaArg = 0
    /\ ret' = [fn |-> "calculateGradePoints", course |-> Head(coursesArg),
               value |-> calculateGradePoints(Head(coursesArg))]
    /\ UNCHANGED <<coursesArg, semestersArg, gpaArg>>
    /\ UNCHANGED <<storeVars, inflight, userDb, frontVars>>

CallSemesterGPA ==
    /\ semestersArg = <<>> /\ gpaArg = 0
    /\ ret' = [fn |-> "calculateSemesterGPA",
               value |-> calculateSemesterGPA([courses |-> coursesArg])]
    /\ UNCHANGED <<coursesArg, semestersArg, gpaArg>>
    /\ UNCHANGED <<storeVars, inflight, userDb, frontVars>>

CallCGPA ==
    /\ coursesArg = <<>> /\ gpaArg = 0
    /\ ret' = [fn |-> "calculateCGPA", value |-> calculateCGPA(semestersArg)]
    /\ UNCHANGED <<coursesArg, semestersArg, gpaArg>>
    /\ UNCHANGED <<storeVars, inflight, userDb, frontVars>>

CallStatsSummary ==
    /\ semestersArg = <<>> /\ gpaArg = 0
    /\ ret' = [fn |-> "statsSummary", value |-> statsSummary(coursesArg)]
    /\ UNCHANGED <<coursesArg, semestersArg, gpaArg>>
    /\ UNCHANGED <<storeVars, inflight, userDb, frontVars>>

CallPerformanceLevel ==
    /\ coursesArg = <<>> /\ semestersArg = <<>>
    /\ ret' = [fn |-> "getPerformanceLevel", value |-> getPerformanceLevel(gpaArg)]
    /\ UNCHANGED <<coursesArg, semestersArg, gpaArg>>
    /\ UNCHANGED <<storeVars, inflight, userDb, frontVars>>

AggNext ==
    \/ CallGradePoints
    \/ CallSemesterGPA
    \/ CallCGPA
    \/ CallStatsSummary
    \/ CallPerformanceLevel

SpecAgg == AggInit /\ [][AggNext]_vars

\* ------------------------------------------------------------------------
\* Specification of the aggregation functions over documents that did not
\* pass the schema: some course has a grade the scale lacks
\* ------------------------------------------------------------------------
\* A course document with grade "E", which gradePointMap and gradeScale lack.
OutOfScaleCourse == [credits |-> 3, grade |-> "E"]

HasOutOfScale(courses) == \E i \in 1..Len(courses) : courses[i].grade \notin Grades

OutOfScaleInit ==
    /\ StoreEmpty
    /\ ret = [fn |-> "none"]
    /\ gpaArg = 0
    /\ \/ /\ \E k \in 1..MaxCourses :
                 \E cs \in [1..k -> CourseKinds \cup {OutOfScaleCourse}] :
                     HasOutOfScale(cs) /\ coursesArg = cs
          /\ semestersArg = <<>>
       \/ /\ coursesArg = <<>>
          /\ \E k \in 1..MaxPool, n \in 1..MaxSemesters :
                 \E pool \in [1..k -> CourseKinds \cup {OutOfScaleCourse}],
                    cuts \in CutsOf(k, n) :
                     HasOutOfScale(pool) /\ semestersArg = Split(pool, n, cuts)

OutOfScaleNext ==
    \/ CallGradePoints
    \/ CallSemesterGPA
    \/ CallCGPA
    \/ CallStatsSummary

SpecOutOfScale == OutOfScaleInit /\ [][OutOfScaleNext]_vars

\* ------------------------------------------------------------------------
\* components/GPADisplay.jsx: getGPAStatus, applied to the gpa prop of a
\* non-empty course list
\* ------------------------------------------------------------------------
\* getGPAStatus(gpa).status, the gpa in hundredths (parseFloat of the two
\* decimals the prop holds).
getGPAStatus(gpa) ==
    IF JsGe(gpa, 370) THEN "Excellent"
    ELSE IF JsGe(gpa, 330) THEN "Very Good"
    ELSE IF JsGe(gpa, 300) THEN "Good"
    ELSE IF JsGe(gpa, 270) THEN "Satisfactory"
    ELSE IF JsGe(gpa, 200) THEN "Average"
    ELSE IF JsGt(gpa, 0) THEN "Below Average"
    ELSE "No Data"

DisplayInit ==
    /\ StoreEmpty
    /\ coursesArg = <<>>
    /\ semestersArg = <<>>
    /\ gpaArg \in 0..MaxGpa
    /\ ret = [fn |-> "none"]

CallGetGPAStatus ==
    /\ ret' = [fn |-> "getGPAStatus", gpa |-> gpaArg, value |-> getGPAStatus(gpaArg)]
    /\ UNCHANGED <<coursesArg, semestersArg, gpaArg>>
    /\ UNCHANGED <<storeVars, inflight, userDb, frontVars>>

DisplayNext == CallGetGPAStatus

SpecDisplay == DisplayInit /\ [][DisplayNext]_vars

\* ------------------------------------------------------------------------
\* src/hooks/useAuth.js and components/PrivateRouteAdvanced.jsx
\* ------------------------------------------------------------------------
\* The token strings of the frontend: a JWT whose payload has exp 2 (in
\* seconds), a JWT whose payload has no exp, a JWT whose payload is no
\* base64 JSON, a string without dots, a string of four parts.
StoredTokens == {"h.exp2.s", "h.noexp.s", "h.garbled.s", "opaque", "h.exp2.s.x"}

\* The user entries: a JSON text and a text that is no JSON.
UserJson == "{\"email\":\"ann@x.edu\"}"
BrokenJson == "{\"email\":"
UserData == [email |-> "ann@x.edu"]
Obj(o) == [type |-> "object", v |-> o]

\* JSON.stringify(userData)
JSONstringify(userData) == IF userData = Null THEN "null" ELSE UserJson

\* JSON.parse(text): the value, or a SyntaxError thrown.
JSONparse(text) ==
    CASE text = UserJson -> [value |-> Obj(UserData)]
      [] text = "null" -> [value |-> Null]
      [] OTHER -> [error |-> "SyntaxError"]

\* localStorage.getItem(key): the string, or null
getItem(storage, key) == IF key \in DOMAIN storage THEN Str(storage[key]) ELSE Null

\* localStorage.setItem(key, value)
setItem(storage, key, value) ==
    [k \in DOMAIN storage \cup {key} |-> IF k = key THEN value ELSE storage[k]]

\* localStorage.removeItem(key)
removeItem(storage, key) == [k \in DOMAIN storage \ {key} |-> storage[k]]

\* The contents of localStorage a page can be loaded with.
StoredContents ==
    {<<>>} \cup {("token" :> t) : t \in StoredTokens \cup {""}}
           \cup {("user" :> UserJson)}
           \cup {("token" :> t) @@ ("user" :> u) :
                    t \in StoredTokens, u \in {UserJson, BrokenJson}}

UseAuthInit ==
    /\ semesterDb = <<>> /\ courseDb = <<>> /\ semesterSeq = 0 /\ courseSeq = 0
    /\ res = [op |-> "none", status |-> 0]
    /\ inflight = <<>>
    /\ userDb = <<>>
    /\ AggIdle
    /\ localStorage \in StoredContents
    /\ auth = useAuthInitialState
    /\ app = AppInitialState

\* initializeAuth, run once by the effect after the first render.  The state
\* setters called before JSON.parse throws have taken effect.
initializeAuth ==
    /\ auth.loading
    /\ LET storedToken == getItem(localStorage, "token")
           storedUser == getItem(localStorage, "user")
       IN  IF Falsy(storedToken)
           THEN /\ auth' = [auth EXCEPT !.loading = FALSE]
                /\ UNCHANGED localStorage
           ELSE IF Falsy(storedUser)
           THEN /\ auth' = [auth EXCEPT !.token = storedToken,
                                        !.isAuthenticated = TRUE, !.loading = FALSE]
                /\ UNCHANGED localStorage
           ELSE IF "error" \in DOMAIN JSONparse(storedUser.v)
           THEN /\ auth' = [auth EXCEPT !.token = storedToken,
                                        !.isAuthenticated = TRUE, !.loading = FALSE]
                /\ localStorage' = removeItem(removeItem(localStorage, "token"), "user")
           ELSE /\ auth' = [auth EXCEPT !.token = storedToken,
                                        !.isAuthenticated = TRUE,
                                        !.user = JSONparse(storedUser.v).value,
                                        !.loading = FALSE]
                /\ UNCHANGED localStorage
    /\ UNCHANGED <<storeVars, aggVars, inflight, userDb, app>>

\* login(newToken, userData).  With userData null the console.log line throws
\* after the setters were called, and login throws to its caller.
useAuthLogin(newToken, userData) ==
    /\ ~auth.loading
    /\ localStorage' = setItem(setItem(localStorage, "token", newToken),
                               "user", JSONstringify(userData))
    /\ auth' = [auth EXCEPT !.token = Str(newToken),
                            !.user = IF userData = Null THEN Null ELSE Obj(userData),
                            !.isAuthenticated = TRUE]
    /\ UNCHANGED <<storeVars, aggVars, inflight, userDb, app>>

\* logout()
logout ==
    /\ ~auth.loading
    /\ localStorage' = removeItem(removeItem(localStorage, "token"), "user")
    /\ auth' = [auth EXCEPT !.token = Null, !.user = Null, !.isAuthenticated = FALSE]
    /\ UNCHANGED <<storeVars, aggVars, inflight, userDb, app>>

\* token.split('.')
splitDots(token) ==
    CASE token = "h.exp2.s" -> <<"h", "exp2", "s">>
      [] token = "h.noexp.s" -> <<"h", "noexp", "s">>
      [] token = "h.garbled.s" -> <<"h", "garbled", "s">>
      [] token = "h.exp2.s.x" -> <<"h", "exp2", "s", "x">>
      [] OTHER -> <<token>>

\* JSON.parse(atob(part)): the payload, or an error thrown.
decodePayload(part) ==
    CASE part = "exp2" -> [value |-> [exp |-> 2]]
      [] part = "noexp" -> [value |-> [sub |-> "ann"]]
      [] OTHER -> [error |-> "SyntaxError"]

\* Date.now(), in milliseconds
Nows == {1000, 2000, 3000}

\* Mutant: a token that expires at this very millisecond still counts.
isTokenValid_Inclusive(token, now) ==
    IF Falsy(token) THEN FALSE
    ELSE LET parts == splitDots(token.v)
         IN  IF Len(parts) # 3 THEN FALSE
             ELSE LET payload == decodePayload(parts[2])
                  IN  IF "error" \in DOMAIN payload THEN FALSE
                      ELSE LET expirationTime ==
                                   IF "exp" \in DOMAIN payload.value
                                   THEN JsMul(payload.value.exp, 1000) ELSE NaN
                           IN  JsGe(expirationTime, now)

\* isTokenValid(), over the token of the hook and the value of Date.now()
isTokenValid(token, now) ==
    IF Falsy(token) THEN FALSE
    ELSE LET parts == splitDots(token.v)
         IN  IF Len(parts) # 3 THEN FALSE
             ELSE LET payload == decodePayload(parts[2])
                  IN  IF "error" \in DOMAIN payload THEN FALSE
                      ELSE LET expirationTime ==
                                   IF "exp" \in DOMAIN payload.value
                                   THEN JsMul(payload.value.exp, 1000) ELSE NaN
                           IN  JsGt(expirationTime, now)

\* What PrivateRouteAdvanced returns.
PrivateRouteAdvanced(validateToken, now) ==
    IF auth.loading THEN "loadingUI"
    ELSE IF validateToken /\ ~Falsy(auth.token) /\ ~isTokenValid(auth.token, now)
    THEN "Navigate to loginPath"
    ELSE IF auth.isAuthenticated THEN "children"
    ELSE "Navigate to loginPath"

\* A render of PrivateRouteAdvanced: its props, the hook state and the time
\* it saw, and what it returned.
RenderPrivateRoute(validateToken, now) ==
    /\ ret' = [fn |-> "PrivateRouteAdvanced", validateToken |-> validateToken,
               now |-> now, auth |-> auth,
               value |-> PrivateRouteAdvanced(validateToken, now)]
    /\ UNCHANGED <<coursesArg, semestersArg, gpaArg>>
    /\ UNCHANGED <<storeVars, inflight, userDb, frontVars>>

UseAuthNext ==
    \/ initializeAuth
    \/ \E newToken \in StoredTokens, userData \in {UserData, Null} :
           useAuthLogin(newToken, userData)
    \/ logout
    \/ \E validateToken \in BOOLEAN, now \in Nows : RenderPrivateRoute(validateToken, now)

SpecUseAuth == UseAuthInit /\ [][UseAuthNext]_vars

\* ------------------------------------------------------------------------
\* Frontend App: the course list and the displayed GPA
\* ------------------------------------------------------------------------
\* The App keeps any number of courses; the model stops adding at MaxListed.
MaxListed == 3

\* gradePoints of calculateGPA, in tenths of a point.
gradePoints ==
    ("A" :> 40 @@ "A-" :> 37 @@ "B+" :> 33 @@ "B" :> 30 @@ "B-" :> 27 @@ "C+" :> 23
     @@ "C" :> 20 @@ "C-" :> 17 @@ "D+" :> 13 @@ "D" :> 10 @@ "F" :> 0)

\* The numeric value of a credits string of the form, in halves of a credit
\* (the number input moves in steps of 0.5); Number(s) in the form's range
\* check and parseFloat(s) in calculateGPA agree on these strings.
parseFloat ==
    ("0" :> 0 @@ "0.5" :> 1 @@ "3" :> 6 @@ "4" :> 8 @@ "7" :> 14)

\* Contents of the form when it is submitted.
Forms ==
    [courseName : {"Calculus", BlankName},
     grade : {"A", "A-", "B+", "F"},
     credits : DOMAIN parseFloat]

\* handleSubmit reaches onAddCourse: the name is not blank and the credits
\* are above 0 and at most 6.
handleSubmitAccepts(form) ==
    /\ trim(form.courseName) # ""
    /\ ~(parseFloat[form.credits] <= 0 \/ parseFloat[form.credits] > 12)

\* The objects handleSubmit passes to onAddCourse.
onAddCourseArgs ==
    {[courseName |-> trim(form.courseName), grade |-> form.grade, credits |-> form.credits] :
        form \in {f \in Forms : handleSubmitAccepts(f)}}

RECURSIVE forEachTotalPoints(_, _)
\* totalPoints after the first n courses, in twentieths (tenths of a point
\* times halves of a credit).
forEachTotalPoints(courseList, n) ==
    IF n = 0 THEN 0
    ELSE forEachTotalPoints(courseList, n - 1)
         + (IF courseList[n].grade \in DOMAIN gradePoints
            THEN gradePoints[courseList[n].grade] ELSE 0)
           * parseFloat[courseList[n].credits]

RECURSIVE forEachTotalCredits(_, _)
\* totalCredits after the first n courses, in halves.
forEachTotalCredits(courseList, n) ==
    IF n = 0 THEN 0
    ELSE forEachTotalCredits(courseList, n - 1) + parseFloat[courseList[n].credits]

\* Every grade point of the list is a whole number, so that the products and
\* sums of calculateGPA are exact in double precision.
RECURSIVE everyPointWhole(_, _)
everyPointWhole(courseList, n) ==
    n = 0 \/ (/\ everyPointWhole(courseList, n - 1)
              /\ courseList[n].grade \in DOMAIN gradePoints
              /\ gradePoints[courseList[n].grade] % 10 = 0)

\* The string (totalPoints / totalCredits).toFixed(2), as the hundredths it
\* spells.
toFixedString(hundredths) == [type |-> "string", hundredths |-> hundredths]

\* The hundredths toFixed(2) can spell for the quotient p / c.  Off a tie the
\* rounding error of the doubles is far too small to move the result.  On a
\* tie the result follows the sign of the error of the double quotient: with
\* whole grade points that is the error of the division alone, with 3.7 or
\* 3.3 in the list the errors of the products and the sums decide, and both
\* directions occur.
toFixedOutcomes(p, c, whole) ==
    LET k == (100 * p) \div c
        rem == (100 * p) % c
    IN  IF 2 * rem < c THEN {k}
        ELSE IF 2 * rem > c THEN {k + 1}
        ELSE IF whole THEN {toFixed2(p, c)}
        ELSE {k, k + 1}

\* The values calculateGPA can hand to setGPA for a list.
calculateGPA(courseList) ==
    IF Len(courseList) = 0 THEN {Num(0)}
    ELSE LET totalPoints == forEachTotalPoints(courseList, Len(courseList))
             totalCredits == forEachTotalCredits(courseList, Len(courseList))
         IN  IF totalCredits > 0
             THEN {toFixedString(h) :
                     h \in toFixedOutcomes(totalPoints, 10 * totalCredits,
                                           everyPointWhole(courseList, Len(courseList)))}
             ELSE {Num(0)}

RECURSIVE filterOutId(_, _, _)
\* courses.filter(course => course.id !== id) over the first n courses.
filterOutId(courses, n, id) ==
    IF n = 0 THEN <<>>
    ELSE IF courses[n].id # id
         THEN Append(filterOutId(courses, n - 1, id), courses[n])
         ELSE filterOutId(courses, n - 1, id)

\* The ids of the listed courses, one delete button each.
listedIds == {app.courses[i].id : i \in 1..Len(app.courses)}

AppInit ==
    /\ semesterDb = <<>> /\ courseDb = <<>> /\ semesterSeq = 0 /\ courseSeq = 0
    /\ res = [op |-> "none", status |-> 0]
    /\ inflight = <<>>
    /\ userDb = <<>>
    /\ AggIdle
    /\ FrontendUnmounted

\* addCourse(course) at time now: Date.now() is the id of the new course.
addCourse(course, now) ==
    /\ Len(app.courses) < MaxListed
    /\ LET newCourses ==
               Append(app.courses,
                      [courseName |-> course.courseName, grade |-> course.grade,
                       credits |-> course.credits, id |-> now])
       IN  \E g \in calculateGPA(newCourses) :
               app' = [courses |-> newCourses, gpa |-> g]
    /\ ret' = [fn |-> "addCourse"]
    /\ UNCHANGED <<coursesArg, semestersArg, gpaArg>>
    /\ UNCHANGED <<storeVars, inflight, userDb, localStorage, auth>>

\* Mutant: the list is filtered, the GPA is not recalculated.
deleteCourse_KeepsGpa(id) ==
    /\ id \in listedIds
    /\ app' = [app EXCEPT !.courses = filterOutId(app.courses, Len(app.courses), id)]
    /\ ret' = [fn |-> "deleteCourse", id |-> id]
    /\ UNCHANGED <<coursesArg, semestersArg, gpaArg>>
    /\ UNCHANGED <<storeVars, inflight, userDb, localStorage, auth>>

\* deleteCourse(id), from the delete button of a listed course.
deleteCourse(id) ==
    /\ id \in listedIds
    /\ LET newCourses == filterOutId(app.courses, Len(app.courses), id)
       IN  \E g \in calculateGPA(newCourses) :
               app' = [courses |-> newCourses, gpa |-> g]
    /\ ret' = [fn |-> "deleteCourse", id |-> id]
    /\ UNCHANGED <<coursesArg, semestersArg, gpaArg>>
    /\ UNCHANGED <<storeVars, inflight, userDb, localStorage, auth>>

\* clearAll().
clearAll ==
    /\ app' = [courses |-> <<>>, gpa |-> Num(0)]
    /\ ret' = [fn |-> "clearAll"]
    /\ UNCHANGED <<coursesArg, semestersArg, gpaArg>>
    /\ UNCHANGED <<storeVars, inflight, userDb, localStorage, auth>>

AppNext ==
    \/ \E course \in onAddCourseArgs, now \in Nows : addCourse(course, now)
    \/ \E id \in Nows : deleteCourse(id)
    \/ clearAll

SpecApp == AppInit /\ [][AppNext]_vars

\* ------------------------------------------------------------------------
\* Reference definitions used by the properties
\* ------------------------------------------------------------------------
\* The 4.0 scale.
scale(g) ==
    CASE g = "A" -> 4 [] g = "B" -> 3 [] g = "C" -> 2 [] g = "D" -> 1 [] g = "F" -> 0

RECURSIVE SumTo(_, _)
\* s[1] + ... + s[n]
SumTo(s, n) == IF n = 0 THEN 0 ELSE SumTo(s, n - 1) + s[n]
SumSeq(s) == SumTo(s, Len(s))

SumOfCredits(cs) == SumSeq([i \in 1..Len(cs) |-> cs[i].credits])
SumOfWeightedPoints(cs) == SumSeq([i \in 1..Len(cs) |-> scale(cs[i].grade) * cs[i].credits])

\* a / b rounded to the nearest integer, halves away from zero (a >= 0, b > 0).
RoundHalfUp(a, b) == (2 * a + b) \div (2 * b)

\* round2(p / c), in hundredths.
round2(p, c) == RoundHalfUp(100 * p, c)

RECURSIVE Flatten(_)
\* The courses of all semesters, in one pool.
Flatten(semesters) ==
    IF semesters = <<>> THEN <<>> ELSE Head(semesters).courses \o Flatten(Tail(semesters))

\* The courses whose semesterId is id, in creation order.
PoolOf(id) == find(courseDb, {c \in DOMAIN courseDb : courseDb[c].semesterId = id})

\* ------------------------------------------------------------------------
\* Properties
\* ------------------------------------------------------------------------
\* C1: after a course was added to a semester, a successful PATCH
\* /semesters/:id/calculate-gpa by the owner leaves the semester's stored gpa
\* equal to the semester GPA over all courses of that semester (the courses
\* whose semesterId is the semester), the new one included.
C1_StoredGpaIsGpaOfPool ==
    (res.op = "PATCH /semesters/:id/calculate-gpa" /\ res.status = 200)
        => LET pool == PoolOf(res.id)
           IN  IF pool = <<>> THEN semesterDb[res.id].gpa = 0
               ELSE semesterDb[res.id].gpa =
                        round2(SumOfWeightedPoints(pool), SumOfCredits(pool))

\* C2: the CGPA is the quotient of the pooled weighted points by the pooled
\* credits of all semesters' courses, rounded to two decimals (0 for an empty
\* pool), not the mean of the semester GPAs: for semester A = one 4-credit A
\* and semester B = one 1-credit F it is 3.20, the mean of the GPAs being 2.00.
ExampleA == [courses |-> <<[credits |-> 4, grade |-> "A"]>>]
ExampleB == [courses |-> <<[credits |-> 1, grade |-> "F"]>>]
MeanOfSemesterGPAs(semesters) ==
    SumSeq([i \in 1..Len(semesters) |-> calculateSemesterGPA(semesters[i])])
        \div Len(semesters)
C2_CgpaIsPooled ==
    ret.fn = "calculateCGPA" =>
        LET pool == Flatten(semestersArg)
        IN  /\ IF pool = <<>> THEN ret.value = 0
               ELSE ret.value = round2(SumOfWeightedPoints(pool), SumOfCredits(pool))
            /\ semestersArg = <<ExampleA, ExampleB>> =>
                   /\ ret.value = 320
                   /\ MeanOfSemesterGPAs(semestersArg) = 200
C2_Witness ==
    /\ ret.fn = "calculateCGPA"
    /\ semestersArg = <<ExampleA, ExampleB>>
    /\ ret.value = 320

\* C3: for every list of valid courses, the semester GPA is 0 for the empty
\* list and otherwise the sum of the weighted grade points divided by the sum
\* of the credits, rounded to two decimal places (round2: halves away from
\* zero).
C3_SemesterGpaIsRoundedQuotient ==
    ret.fn = "calculateSemesterGPA" =>
        LET report == reportSemesterGPA([courses |-> coursesArg])
            points == SumOfWeightedPoints(coursesArg)
            credits == SumOfCredits(coursesArg)
        IN  IF coursesArg = <<>> THEN ret.value = 0 /\ report = 0
            ELSE ret.value = round2(points, credits) /\ report = round2(points, credits)
C3_Witness ==
    /\ ret.fn = "calculateSemesterGPA"
    /\ Len(coursesArg) = 3
    /\ SumOfWeightedPoints(coursesArg) = 8
    /\ SumOfCredits(coursesArg) = 3
    /\ ret.value = 267

\* C4: the weighted grade points of a course with grade g and credits c are
\* scale[g] * c exactly (A=4, B=3, C=2, D=1, F=0).
C4_GradePointsAreScaleTimesCredits ==
    ret.fn = "calculateGradePoints" =>
        /\ ret.course.grade \in Grades /\ ret.course.credits \in 1..4
        /\ ret.value = scale(ret.course.grade) * ret.course.credits
C4_Witness ==
    /\ ret.fn = "calculateGradePoints"
    /\ ret.course = [credits |-> 3, grade |-> "B"]
    /\ ret.value = 9

\* C5: empty inputs give 0, never NaN: the semester GPA of no courses, the
\* CGPA of zero semesters or of semesters without courses, and the gpa of the
\* statistics summary of no courses.
C5_EmptyInputsGiveZero ==
    /\ (ret.fn = "calculateSemesterGPA" /\ coursesArg = <<>>)
           => (ret.value = 0 /\ reportSemesterGPA([courses |-> coursesArg]) = 0)
    /\ (ret.fn = "calculateCGPA" /\ Flatten(semestersArg) = <<>>) => ret.value = 0
    /\ (ret.fn = "statsSummary" /\ coursesArg = <<>>)
           => (ret.value.gpa = 0 /\ ret.value.cgpa = 0)
C5_Witness ==
    /\ ret.fn = "calculateCGPA"
    /\ Len(semestersArg) = 2
    /\ Flatten(semestersArg) = <<>>
    /\ ret.value = 0

\* C6: the summary's gpa is the semester-GPA/CGPA formula over the flat course
\* list; for {4 credits, A}, {3 credits, B}, {3 credits, C} the summary has
\* totalCredits 10 and gpa 3.10.
ExampleCourses ==
    <<[credits |-> 4, grade |-> "A"], [credits |-> 3, grade |-> "B"],
      [credits |-> 3, grade |-> "C"]>>
C6_SummaryGpaIsSameFormula ==
    ret.fn = "statsSummary" =>
        /\ ret.value.gpa = calculateSemesterGPA([courses |-> coursesArg])
        /\ ret.value.gpa = calculateCGPA(<<[courses |-> coursesArg]>>)
        /\ coursesArg = ExampleCourses =>
               (ret.value.totalCredits = 10 /\ ret.value.gpa = 310)
C6_Witness ==
    /\ ret.fn = "statsSummary"
    /\ coursesArg = ExampleCourses
    /\ ret.value.gpa = 310

\* C7: the semester GPA of a non-empty course list is the same for every
\* permutation of the list.  Every permutation is a product of transpositions
\* of neighbours and every list of at most MaxCourses courses is an input, so
\* the property is stated for every such transposition of every such list; of
\* the longer transcripts the reversal is compared.
Swapped(cs, i, j) ==
    [k \in 1..Len(cs) |-> IF k = i THEN cs[j] ELSE IF k = j THEN cs[i] ELSE cs[k]]
Reversed(cs) == [i \in 1..Len(cs) |-> cs[Len(cs) + 1 - i]]
C7_SemesterGpaIgnoresOrder ==
    (ret.fn = "calculateSemesterGPA" /\ coursesArg # <<>>) =>
        IF Len(coursesArg) <= MaxCourses
        THEN \A i \in 1..(Len(coursesArg) - 1) :
                 calculateSemesterGPA([courses |-> Swapped(coursesArg, i, i + 1)]) = ret.value
        ELSE calculateSemesterGPA([courses |-> Reversed(coursesArg)]) = ret.value
C7_Witness ==
    /\ ret.fn = "calculateSemesterGPA"
    /\ coursesArg = ExampleCourses
    /\ calculateSemesterGPA([courses |-> Reversed(coursesArg)]) = 310

\* C8: in every summary gradeDistribution and creditDistribution carry the
\* five keys A, B, C, D, F (all 0 for no courses); the five counts sum to the
\* number of courses and the five credit sums to the total credits.
C8_DistributionsAreComplete ==
    ret.fn = "statsSummary" =>
        LET gd == ret.value.stats.gradeDistribution
            cd == ret.value.stats.creditDistribution
            keys == <<"A", "B", "C", "D", "F">>
        IN  /\ Grades \subseteq DOMAIN gd
            /\ Grades \subseteq DOMAIN cd
            /\ \A g \in Grades : gd[g] >= 0 /\ cd[g] >= 0
            /\ SumSeq([i \in 1..5 |-> gd[keys[i]]]) = Len(coursesArg)
            /\ SumSeq([i \in 1..5 |-> cd[keys[i]]]) = SumOfCredits(coursesArg)
            /\ ret.value.totalCredits = SumOfCredits(coursesArg)
            /\ coursesArg = <<>> => \A g \in Grades : gd[g] = 0 /\ cd[g] = 0
C8_Witness ==
    /\ ret.fn = "statsSummary"
    /\ coursesArg = ExampleCourses
    /\ ret.value.stats.gradeDistribution["A"] = 1
    /\ ret.value.stats.creditDistribution["B"] = 3
    /\ ret.value.stats.gradeDistribution["F"] = 0

\* C9: the summary's passRate is round(100 * (totalCourses - failed) /
\* totalCourses) for every non-empty course list and 0 for the empty one; for
\* grades [A, A, F] it is 67.
FailedIn(cs) == Cardinality({i \in 1..Len(cs) : cs[i].grade = "F"})
C9_PassRateIsRoundedPercentage ==
    ret.fn = "statsSummary" =>
        ret.value.stats.gradeDistribution["passRate"] =
            (IF coursesArg = <<>> THEN 0
             ELSE RoundHalfUp(100 * (Len(coursesArg) - FailedIn(coursesArg)),
                              Len(coursesArg)))

\* C10: performanceLevel is Excellent from 3.5, Good from 3.0, Satisfactory
\* from 2.5, Fair from 2.0 and Needs Improvement below, and N/A exactly when
\* there are no courses; 3.50 is Excellent, 3.49 Good, 2.00 Fair, 1.99 Needs
\* Improvement, and a non-empty list of F courses only is Needs Improvement.
LevelOf(gpa) ==
    CASE gpa \in 350..400 -> "Excellent"
      [] gpa \in 300..349 -> "Good"
      [] gpa \in 250..299 -> "Satisfactory"
      [] gpa \in 200..249 -> "Fair"
      [] gpa \in 0..199 -> "Needs Improvement"
C10_PerformanceLevelFollowsThresholds ==
    /\ ret.fn = "getPerformanceLevel" =>
           /\ ret.value = LevelOf(gpaArg)
           /\ gpaArg = 350 => ret.value = "Excellent"
           /\ gpaArg = 349 => ret.value = "Good"
           /\ gpaArg = 200 => ret.value = "Fair"
           /\ gpaArg = 199 => ret.value = "Needs Improvement"
    /\ ret.fn = "statsSummary" =>
           /\ ret.value.stats.performanceLevel = "N/A" <=> coursesArg = <<>>
           /\ coursesArg # <<>> =>
                  ret.value.stats.performanceLevel = LevelOf(ret.value.gpa)
           /\ (coursesArg # <<>> /\ FailedIn(coursesArg) = Len(coursesArg)) =>
                  ret.value.stats.performanceLevel = "Needs Improvement"
C10_Witness ==
    /\ ret.fn = "getPerformanceLevel"
    /\ gpaArg = 349
    /\ ret.value = "Good"

\* C11: along every sequence of POST /courses and PUT /courses/:id requests
\* with arbitrary bodies, every persisted course has integer credits in 1..4
\* and a grade in {A,B,C,D,F}; a request whose credits or grade violate this
\* (POST: missing too) is rejected and changes no stored course, so nothing
\* is coerced into range.
ViolatesCredits(x) == x.type # "number" \/ x.v \notin MinCredits..MaxCredits
ViolatesGrade(x) == x.type # "string" \/ x.v \notin Grades
Violating(r) ==
    \/ /\ r.op = "POST /courses"
       /\ ViolatesCredits(r.body.credits) \/ ViolatesGrade(r.body.grade)
    \/ /\ r.op = "PUT /courses/:id"
       /\ \/ r.body.credits.type # "undefined" /\ ViolatesCredits(r.body.credits)
          \/ r.body.grade.type # "undefined" /\ ViolatesGrade(r.body.grade)
C11_PersistedCoursesAreValid ==
    [][/\ \A c \in DOMAIN courseDb' :
              /\ courseDb'[c].credits \in MinCredits..MaxCredits
              /\ courseDb'[c].grade \in Grades
       /\ Violating(res') => (res'.status \notin {200, 201} /\ courseDb' = courseDb)]_vars
C11_Witness ==
    /\ res.op = "PUT /courses/:id"
    /\ res.body.credits = Num(0)
    /\ res.status = 500
    /\ res.id \in DOMAIN courseDb
    /\ courseDb[res.id].userId = res.user
    /\ courseDb[res.id].credits = 3

\* C12: after any sequence of course and semester operations, every persisted
\* course's semesterId names a semester that exists and is owned by the
\* course's user.
C12_CoursesBelongToOwnedSemester ==
    \A c \in DOMAIN courseDb :
        /\ courseDb[c].semesterId \in DOMAIN semesterDb
        /\ semesterDb[courseDb[c].semesterId].userId = courseDb[c].userId

\* C13: a by-id request (GET, PUT, DELETE /courses/:id; GET, PATCH
\* calculate-gpa, DELETE /semesters/:id) by a user who does not own the
\* record is answered 403, carries none of the record's data and leaves every
\* course and semester unchanged; GET /courses and GET /semesters return only
\* records owned by the requester (the populated references included).
CourseByIdOps == {"GET /courses/:id", "PUT /courses/:id", "DELETE /courses/:id"}
SemesterByIdOps ==
    {"GET /semesters/:id", "PATCH /semesters/:id/calculate-gpa", "DELETE /semesters/:id"}
\* The request answered by r named a stored record that r.user does not own.
NotOwnedById(r) ==
    \/ /\ r.op \in CourseByIdOps
       /\ r.id \in DOMAIN courseDb
       /\ courseDb[r.id].userId # r.user
    \/ /\ r.op \in SemesterByIdOps
       /\ r.id \in DOMAIN semesterDb
       /\ semesterDb[r.id].userId # r.user
C13_RequestsAreScopedToOwner ==
    [][/\ NotOwnedById(res') =>
              /\ res'.status = 403
              /\ "data" \notin DOMAIN res' /\ "gpa" \notin DOMAIN res'
              /\ courseDb' = courseDb /\ semesterDb' = semesterDb
       /\ res'.op = "GET /courses" =>
              \A c \in DOMAIN res'.data :
                  /\ res'.data[c].userId = res'.user
                  /\ res'.data[c].semesterId # null =>
                         semesterDb[res'.data[c].semesterId._id].userId = res'.user
       /\ res'.op = "GET /semesters" =>
              \A i \in DOMAIN res'.data :
                  /\ res'.data[i].userId = res'.user
                  /\ \A k \in 1..Len(res'.data[i].courses) :
                         res'.data[i].courses[k].userId = res'.user]_vars

\* C14: when DELETE /semesters/:id by the owner has succeeded, the semester
\* no longer exists and no persisted course has it as its semesterId.
C14_DeleteSemesterCascades ==
    (res.op = "DELETE /semesters/:id" /\ res.status = 200) =>
        /\ res.id \notin DOMAIN semesterDb
        /\ \A c \in DOMAIN courseDb : courseDb[c].semesterId # res.id
C14_Witness ==
    /\ res.op = "DELETE /semesters/:id" /\ res.status = 200 /\ res.id = 1
    /\ courseSeq = 2
    /\ DOMAIN courseDb = {2}
    /\ courseDb[2].semesterId = 2
    /\ DOMAIN semesterDb = {2}

C17_OutOfScaleGradeSignalsError ==
    ret.fn \in {"calculateSemesterGPA", "calculateCGPA", "statsSummary"} =>
        "value" \notin DOMAIN ret
\* The semester GPA of a list with an out-of-scale grade came back as NaN.
C17_Witness ==
    /\ ret.fn = "calculateSemesterGPA"
    /\ HasOutOfScale(coursesArg)
    /\ ret.value = NaN

C19_PutChangesOnlyBodyFields ==
    [][res'.op = "PUT /courses/:id" =>
          /\ DOMAIN courseDb' = DOMAIN courseDb
          /\ \A c \in DOMAIN courseDb :
                /\ courseDb'[c].userId = courseDb[c].userId
                /\ courseDb'[c].semesterId = courseDb[c].semesterId
                /\ c # res'.id => courseDb'[c] = courseDb[c]
                /\ \A f \in {"name", "credits", "grade"} :
                       res'.body[f].type = "undefined" => courseDb'[c][f] = courseDb[c][f]]_vars
\* A body with a grade alone was accepted: of the two courses, the one named
\* has the new grade and the name and credits it was created with.
C19_Witness ==
    /\ res.op = "PUT /courses/:id" /\ res.status = 200
    /\ res.body.name = Undef /\ res.body.credits = Undef /\ res.body.grade = Str("F")
    /\ Cardinality(DOMAIN courseDb) = 2
    /\ courseDb[res.id].grade = "F"
    /\ courseDb[res.id].credits = 3
    /\ courseDb[res.id].name = "Calculus I"
    /\ \E c \in DOMAIN courseDb : courseDb[c].grade = "A"

C21_AnalyticsReportsLiveGpa ==
    res.op = "GET /semesters/analytics/cgpa" =>
        \A i \in DOMAIN res.semesters :
            /\ res.semesters[i].gpa = calculateSemesterGPA([courses |-> PoolOf(i)])
            /\ res.semesters[i].courseCount = Len(PoolOf(i))
\* The analytics of a user whose semester has a course graded A report gpa 0
\* and courseCount 0 for it.
C21_Witness ==
    /\ res.op = "GET /semesters/analytics/cgpa"
    /\ \E i \in DOMAIN res.semesters :
           /\ \E c \in DOMAIN courseDb :
                  /\ courseDb[c].semesterId = i
                  /\ courseDb[c].userId = res.user
                  /\ courseDb[c].grade = "A"
           /\ res.semesters[i].gpa = 0
           /\ res.semesters[i].courseCount = 0

\* The token verifyToken is to use: the second space-separated part of the
\* Authorization header when there is one, otherwise the x-auth-token header
\* ("": none).
TokenFound(headers) ==
    IF /\ headers.authorization # Undef
       /\ Len(headers.authorization.v) >= 2
       /\ headers.authorization.v[2] # ""
    THEN headers.authorization.v[2]
    ELSE IF headers.xAuthToken # Undef THEN headers.xAuthToken.v ELSE ""

\* C22: verifyToken calls next, once and with req.user set to the decoded
\* payload, exactly when a token is found (Authorization first, x-auth-token
\* otherwise) and that token verifies; in every other case it answers 401
\* and does not call next.
C22_VerifyTokenGuardsNext ==
    ret.fn = "verifyToken" =>
        LET token == TokenFound(ret.headers)
            verifies == /\ token \in {"token of u1", "token of u2"}
                        /\ ret.secretSet
        IN  IF verifies
            THEN /\ ret.nextCalls = 1
                 /\ ret.status = 0
                 /\ ret.user = [userId |-> IF token = "token of u1" THEN "u1" ELSE "u2"]
            ELSE /\ ret.nextCalls = 0
                 /\ ret.status = 401
\* An expired token in the Authorization header is refused although the
\* x-auth-token header holds a token that verifies.
C22_Witness ==
    /\ ret.fn = "verifyToken"
    /\ ret.secretSet
    /\ ret.headers.authorization = Str(<<"Bearer", "expired token">>)
    /\ ret.headers.xAuthToken = Str("token of u1")
    /\ ret.status = 401 /\ ret.code = "TOKEN_EXPIRED" /\ ret.nextCalls = 0

\* A login that passes the validation chain.
WellFormedLogin(body) == isEmail(normalizeEmail(body.email)) /\ body.password # ""
Registered(email) == \E u \in DOMAIN userDb : userDb[u].email = toLowerCase(email)
WrongPassword(body) ==
    \E u \in DOMAIN userDb :
        userDb[u].email = toLowerCase(body.email) /\ userDb[u].password[2] # body.password

\* C23: in every state, the response to a well-formed login for an unknown
\* email and the response to a login with a registered email and a wrong
\* password are the same response (status 401, same message and code), and
\* neither holds a token.
C23_LoginDoesNotRevealRegistration ==
    \A unknown, wrong \in LoginBodies :
        (/\ WellFormedLogin(unknown) /\ ~Registered(unknown.email)
         /\ WellFormedLogin(wrong) /\ WrongPassword(wrong)) =>
            /\ login(userDb, unknown) = login(userDb, wrong)
            /\ login(userDb, unknown).status = 401
            /\ "token" \notin DOMAIN login(userDb, unknown)
\* A login with the registered email of the one user and a wrong password was
\* answered 401, while another address is unknown.
C23_Witness ==
    /\ res.op = "POST /login" /\ res.status = 401
    /\ res.body = [email |-> "Ann@X.edu", password |-> "Wrong1"]
    /\ DOMAIN userDb = {1}
    /\ userDb[1].email = "ann@x.edu"
    /\ ~Registered("bob@x.edu")

\* C24: for every GPA from 0.00 to 4.00 of a non-empty course list the
\* GPADisplay status is Excellent from 3.7, Very Good from 3.3, Good from
\* 3.0, Satisfactory from 2.7, Average from 2.0 and Below Average below 2.0.
C24_StatusFollowsReadmeTable ==
    ret.fn = "getGPAStatus" =>
        ret.value = (IF ret.gpa >= 370 THEN "Excellent"
                     ELSE IF ret.gpa >= 330 THEN "Very Good"
                     ELSE IF ret.gpa >= 300 THEN "Good"
                     ELSE IF ret.gpa >= 270 THEN "Satisfactory"
                     ELSE IF ret.gpa >= 200 THEN "Average"
                     ELSE "Below Average")
\* The status of GPA 0.00 is No Data.
C24_Witness ==
    /\ ret.fn = "getGPAStatus"
    /\ ret.gpa = 0
    /\ ret.value = "No Data"

\* C25: every course created through POST /courses with semesterId s is a
\* member of the courses list of semester s (while that semester exists).
C25_CourseIsListedInItsSemester ==
    \A c \in DOMAIN courseDb :
        courseDb[c].semesterId \in DOMAIN semesterDb =>
            \E i \in 1..Len(semesterDb[courseDb[c].semesterId].courses) :
                semesterDb[courseDb[c].semesterId].courses[i] = c
\* A course was created in a semester of its owner, and the courses list of
\* the semester is empty.
C25_Witness ==
    /\ res.op = "POST /courses" /\ res.status = 201
    /\ res.id \in DOMAIN courseDb
    /\ courseDb[res.id].semesterId \in DOMAIN semesterDb
    /\ semesterDb[courseDb[res.id].semesterId].userId = res.user
    /\ semesterDb[courseDb[res.id].semesterId].courses = <<>>

\* C26: DELETE /semesters/:id by a user leaves every course and every
\* semester owned by another user as it was, whatever semesterId the courses
\* carry.
C26_DeleteSemesterKeepsOthersRecords ==
    [][res'.op = "DELETE /semesters/:id" =>
          /\ \A c \in DOMAIN courseDb :
                 courseDb[c].userId # res'.user =>
                     c \in DOMAIN courseDb' /\ courseDb'[c] = courseDb[c]
          /\ \A i \in DOMAIN semesterDb :
                 semesterDb[i].userId # res'.user =>
                     i \in DOMAIN semesterDb' /\ semesterDb'[i] = semesterDb[i]]_vars

\* A body of PUT /courses/:id with a field that is present and invalid.
ViolatesName(x) == x.type # "string" \/ trim(x.v) = "" \/ tooLong(x.v)
InvalidPutBody(body) ==
    \/ body.name.type # "undefined" /\ ViolatesName(body.name)
    \/ body.credits.type # "undefined" /\ ViolatesCredits(body.credits)
    \/ body.grade.type # "undefined" /\ ViolatesGrade(body.grade)

\* C27: on PUT and DELETE /courses/:id the first failing check decides the
\* response: a malformed id gives 400, then (PUT) an invalid body field gives
\* 400, then a missing course gives 404, then a course of another user gives
\* 403; in these outcomes the courses are as they were.
C27_ChecksRunInOrder ==
    [][/\ res'.op = "PUT /courses/:id" =>
              IF res'.id = MalformedId THEN res'.status = 400
              ELSE IF InvalidPutBody(res'.body) THEN res'.status = 400
              ELSE IF res'.id \notin DOMAIN courseDb THEN res'.status = 404
              ELSE IF courseDb[res'.id].userId # res'.user THEN res'.status = 403
              ELSE TRUE
       /\ res'.op = "DELETE /courses/:id" =>
              IF res'.id = MalformedId THEN res'.status = 400
              ELSE IF res'.id \notin DOMAIN courseDb THEN res'.status = 404
              ELSE IF courseDb[res'.id].userId # res'.user THEN res'.status = 403
              ELSE TRUE
       /\ (/\ res'.op \in {"PUT /courses/:id", "DELETE /courses/:id"}
           /\ res'.status \in {400, 403, 404}) => courseDb' = courseDb]_vars
\* A PUT with credits 0 for an id that names no course was answered 404.
C27_Witness ==
    /\ res.op = "PUT /courses/:id"
    /\ res.body.credits = Num(0)
    /\ res.id \notin DOMAIN courseDb
    /\ res.status = 404

\* C28: once useAuth's initialization has run, and after any logins and
\* logouts that follow, isAuthenticated is true exactly when the hook's token
\* is non-null, and that holds exactly when localStorage holds a token.
C28_HookAgreesWithLocalStorage ==
    ~auth.loading =>
        /\ auth.isAuthenticated <=> auth.token # Null
        /\ auth.token # Null <=>
               ("token" \in DOMAIN localStorage /\ localStorage["token"] # "")
\* The page was loaded with a token and a user entry that is no JSON: after
\* the initialization the hook is authenticated and localStorage is empty.
C28_Witness ==
    /\ ~auth.loading
    /\ auth.isAuthenticated
    /\ auth.token = Str("h.exp2.s")
    /\ auth.user = Null
    /\ localStorage = <<>>

weightedGpaHundredths(courseList) ==
    LET p == forEachTotalPoints(courseList, Len(courseList))
        c == 10 * forEachTotalCredits(courseList, Len(courseList))
    IN  {h \in 0..400 : 2 * (100 * p - h * c) <= c /\ 2 * (h * c - 100 * p) <= c}

\* The displayed gpa is the one of the listed courses.
GpaIsOfListedCourses ==
    IF app.courses = <<>> THEN app.gpa = Num(0)
    ELSE /\ app.gpa.type = "string"
         /\ app.gpa.hundredths \in weightedGpaHundredths(app.courses)

\* deleteCourse(id) drops the courses with that id and keeps the others.
DeleteRemovesThatIdOnly ==
    ret'.fn = "deleteCourse" =>
        /\ \E i \in 1..Len(app.courses) : app.courses[i].id = ret'.id
        /\ app'.courses = SelectSeq(app.courses, LAMBDA c : c.id # ret'.id)

\* clearAll() leaves the empty list and gpa 0.
ClearAllEmpties ==
    ret'.fn = "clearAll" => app'.courses = <<>> /\ app'.gpa = Num(0)

\* C30: after any sequence of addCourse, deleteCourse and clearAll the
\* displayed gpa is the credit-weighted GPA, to two decimals, of exactly the
\* courses in the list and 0 when the list is empty; deleteCourse(id) removes
\* the course with that id and no other; clearAll leaves an empty list with
\* gpa 0.
C30_GpaFollowsCourseList ==
    /\ []GpaIsOfListedCourses
    /\ [][DeleteRemovesThatIdOnly /\ ClearAllEmpties]_vars

\* A course was deleted from a list of three: two courses with other grades
\* remain and the gpa shown is theirs.
C30_Witness ==
    /\ ret = [fn |-> "deleteCourse", id |-> 2000]
    /\ Len(app.courses) = 2
    /\ app.courses[1].grade = "A-" /\ app.courses[1].credits = "3"
    /\ app.courses[2].grade = "B+" /\ app.courses[2].credits = "4"
    /\ app.gpa = toFixedString(347)

====
